---- MODULE Spec2Model ----
(***************************************************************************)
(* Model of src/api/environment.cc: the Environment lifecycle              *)
(* (CreateEnvironment, LoadEnvironment, FreeEnvironment; specification     *)
(* Spec) and the DebuggingArrayBufferAllocator (specification SpecAlloc).  *)
(***************************************************************************)
EXTENDS Integers, Sequences, FiniteSets, TLC

\* ----- bounds of the model ------------------------------------------------
MaxHooks == 2
MaxTasks == 2
MaxLoadCalls == 2
MaxDanglingCalls == 1
MaxPtr == 2
MaxSize == 2
NumThreads == 2
MaxIds == 5
MaxIsolateCalls == 3
MaxMem == 2
MaxContextCalls == 2
NumEnvs == 3
MaxBindings == 3
MaxScopeDepth == 2
MaxTraceCalls == 3
MaxExceptions == 2

VARIABLES
  env,          \* the Environment object: "none", "alive" or "deleted"
  flags,        \* EnvironmentFlags given to CreateEnvironment
  platform,     \* env->isolate_data()->platform() != nullptr
  abort_on_uncaught_exception,  \* per-environment toggle
  cpc,          \* position inside CreateEnvironment
  ret,          \* what CreateEnvironment returned: "pending", "env", "nullptr"
  results,      \* outcome of RunBootstrapping and of ExecuteBootstrapper
  stopped,      \* env->thread_stopper()->is_stopped()
  sub_workers_stopped,
  cleanup_hooks,  \* registered cleanup hooks that have not run yet
  at_exit,        \* registered at-exit callbacks that have not run yet
  tasks,          \* platform tasks pending for the isolate
  fpc,          \* position inside FreeEnvironment, 0 when no call is active
  fcall,        \* the active (or last) FreeEnvironment call
  calls,        \* number of calls made so far, per entry point
  events,       \* history: what each teardown step and callback observed
  lifecycle,    \* history: the lifecycle states entered, in order
  crashed,      \* the process crashed on a use of a released Environment
  heap,         \* addresses of the live blocks of the process heap
  allocations_, \* DebuggingArrayBufferAllocator: tracked pointer -> size
  aborted,      \* "none", or the fatal check that ended the process
  destroyed,    \* ~DebuggingArrayBufferAllocator has run
  last,         \* the last allocator call: its arguments and return value
  expected,     \* history: pointers handed out and not released, with sizes
  pairs,        \* history: only Allocate/Free so far, and the unfreed pointers
  next_thread_id,  \* static std::atomic<uint64_t> next_thread_id
  tid_pc,       \* per thread: position inside AllocateEnvironmentThreadId
  tid_val,      \* per thread: the value its post-increment yielded
  issued,       \* history: the ids, in the order of the atomic increments
  got,          \* history: per thread, the ids returned to it
  iso_pc,       \* position inside NewIsolate: index of the next step, 0 outside
  isolate,      \* NewIsolate's local: the isolate Isolate::Allocate returned
  iso_ret,      \* what the last NewIsolate call returned (CRASH: nothing yet)
  iso_count,    \* number of NewIsolate calls made
  registered,   \* the platform's isolate registry
  initialized,  \* isolates Isolate::Initialize has been called on
  handlers,     \* isolates whose handlers SetIsolateUpForNode installed
  constraints,  \* params->constraints: the heap size configured, or V8Default
  iso_log,      \* history: the steps the current NewIsolate call performed
  ctx_pc,       \* position inside NewContext / InitializeContext
  ctx_entry,    \* the function the embedder called: NewContext or InitializeContext
  context,      \* the context: embedder data and the properties the stages touch
  module,       \* InitializeContextForSnapshot's loop variable, an index
  snapshot_ret, \* what InitializeContextForSnapshot returned
  initialize_ret,  \* what InitializeContext returned
  new_ret,      \* what NewContext returned
  ctx_crashed,  \* the process died in FromJust()
  ctx_calls,    \* number of calls the embedder made
  runtime_runs, \* history: runs of InitializeContextRuntime in the current call
  ctx_log,      \* history: units compiled and run in the current call
  envs,         \* per environment: state, thread_id, the unit name it used, and
                \* the script its ExecuteBootstrapper ran
  source_,      \* the process-wide table of bootstrap units: name -> script
  extra_linked_bindings,        \* std::list<node_module>: [mod, nm_link]
  extra_linked_bindings_mutex,  \* the thread holding the mutex, NULL if free
  alb_pc,       \* per thread: position inside AddLinkedBinding
  alb_call,     \* per thread: mod, prev_head and the list as push_back read it
  alb_calls,    \* number of AddLinkedBinding calls made with an environment
  alb_aborted,  \* CHECK_NOT_NULL(env) failed
  alb_completed,    \* history: the mods of the calls that returned
  alb_at_abort, \* history: the list when the fatal call was made
  current,      \* the Environment of the isolate: "none", "alive" or "deleted"
  is_main_thread,   \* env->is_main_thread()
  is_stopping,      \* env->is_stopping()
  should_abort_on_uncaught_toggle,  \* env->should_abort_on_uncaught_toggle()[0]
  should_not_abort_scope_counter,   \* depth of should-not-abort scopes
  ab_fpc,       \* position inside FreeEnvironment, 0 outside
  ab_ret,       \* what the last call of the predicate returned
  ab_seen,      \* history: what the predicate's reads yielded in that call
  pst_pc,       \* position inside PrepareStackTraceCallback
  pst_args,     \* the call: exception passed, env found, callback registered
  pst_result,   \* the local result / s: "none", "empty", "string" or "value"
  try_catch,    \* the TryCatchScope: caught, terminated, the exception caught
  scheduled_exception,  \* the exception ReThrow scheduled, NULL if none
  pst_ret,      \* what the hook returned
  pst_calls,    \* number of calls of the hook
  pst_outcome,  \* history: how the user callback ended, "none" if not called
  mutex_,       \* DebuggingArrayBufferAllocator::mutex_: its holder, NULL if free
  mt_pc,        \* per thread: position inside its allocator call
  mt_call,      \* per thread: the call it is in (op, arguments, ret)
  mt_released   \* history: the block the heap released last, and for whom

envVars == <<env, flags, platform, abort_on_uncaught_exception, cpc, ret,
             results, stopped, sub_workers_stopped, cleanup_hooks, at_exit,
             tasks, fpc, fcall, calls, events, lifecycle, crashed>>

allocVars == <<heap, allocations_, aborted, destroyed, last, expected, pairs>>

tidVars == <<next_thread_id, tid_pc, tid_val, issued, got>>
isoVars == <<iso_pc, isolate, iso_ret, iso_count, registered, initialized,
             handlers, constraints, iso_log>>
ctxVars == <<ctx_pc, ctx_entry, context, module, snapshot_ret, initialize_ret,
             new_ret, ctx_crashed, ctx_calls, runtime_runs, ctx_log>>
mainVars == <<envs, source_>>
albVars == <<extra_linked_bindings, extra_linked_bindings_mutex, alb_pc,
             alb_call, alb_calls, alb_aborted, alb_completed, alb_at_abort>>
abortVars == <<current, is_main_thread, is_stopping,
               should_abort_on_uncaught_toggle, should_not_abort_scope_counter,
               ab_fpc, ab_ret, ab_seen>>
pstVars == <<pst_pc, pst_args, pst_result, try_catch, scheduled_exception,
             pst_ret, pst_calls, pst_outcome>>
mtVars == <<mutex_, mt_pc, mt_call, mt_released>>

\* What the actions of each specification leave alone.
frameEnv == <<allocVars, tidVars, isoVars, ctxVars, mainVars, albVars,
              abortVars, pstVars, mtVars>>
frameAlloc == <<envVars, tidVars, isoVars, ctxVars, mainVars, albVars,
                abortVars, pstVars, mtVars>>
frameTid == <<envVars, allocVars, isoVars, ctxVars, mainVars, albVars,
              abortVars, pstVars, mtVars>>
frameIso == <<envVars, allocVars, tidVars, ctxVars, mainVars, albVars,
              abortVars, pstVars, mtVars>>
frameCtx == <<envVars, allocVars, tidVars, isoVars, mainVars, albVars,
              abortVars, pstVars, mtVars>>
frameMain == <<envVars, allocVars, isoVars, ctxVars, albVars, abortVars,
               pstVars, mtVars>>
frameAlb == <<envVars, allocVars, tidVars, isoVars, ctxVars, mainVars,
              abortVars, pstVars, mtVars>>
frameAbort == <<envVars, allocVars, tidVars, isoVars, ctxVars, mainVars,
                albVars, pstVars, mtVars>>
framePst == <<envVars, allocVars, tidVars, isoVars, ctxVars, mainVars,
              albVars, abortVars, mtVars>>
frameAllocMT == <<envVars, tidVars, isoVars, ctxVars, mainVars, albVars,
                  abortVars, pstVars, destroyed, last, pairs>>

vars == <<envVars, allocVars, tidVars, isoVars, ctxVars, mainVars, albVars,
          abortVars, pstVars, mtVars>>

\* ----- FreeEnvironment ------------------------------------------------------

\* The statements of FreeEnvironment, in program order, with the order swapped
\* so that the hooks run before the stop flag is set.
FreeEnvironmentSteps_HooksFirst ==
  <<"RunCleanup", "RunAtExit", "set_stopped", "stop_sub_worker_contexts",
    "DrainTasks", "delete">>

\* The statements of FreeEnvironment with the Environment released before the
\* platform's tasks are drained.
FreeEnvironmentSteps_DeleteFirst ==
  <<"set_stopped", "stop_sub_worker_contexts", "RunCleanup", "RunAtExit",
    "delete", "DrainTasks">>

\* The statements of FreeEnvironment, in program order.
FreeEnvironmentSteps ==
  <<"set_stopped", "stop_sub_worker_contexts", "RunCleanup", "RunAtExit",
    "DrainTasks", "delete">>

\* What a teardown step or a callback sees when it runs.
Observe(name) ==
  [ev |-> name, call |-> calls.free, dangling |-> fcall.dangling,
   alive |-> env = "alive", stopped |-> stopped, sub |-> sub_workers_stopped,
   cleanup |-> cleanup_hooks, atexit |-> at_exit]

AtStep(name) ==
  /\ ~crashed
  /\ fpc \in 1..Len(FreeEnvironmentSteps)
  /\ FreeEnvironmentSteps[fpc] = name

\* Control leaves a statement of FreeEnvironment; after the last one the call
\* returns.
Advance == fpc' = IF fpc = Len(FreeEnvironmentSteps) THEN 0 ELSE fpc + 1

\* Entry of FreeEnvironment(env).
EnterFreeEnvironment(caller, dangling) ==
  /\ fpc' = 1
  /\ fcall' = [caller |-> caller, dangling |-> dangling]
  /\ calls' = [calls EXCEPT !.free = @ + 1,
                            !.dangling = IF dangling THEN @ + 1 ELSE @]
  /\ lifecycle' = Append(lifecycle, "cleaning-up")

FE_set_stopped ==
  /\ AtStep("set_stopped")
  /\ events' = Append(events, Observe("set_stopped"))
  /\ stopped' = TRUE
  /\ Advance
  /\ UNCHANGED <<env, flags, platform, abort_on_uncaught_exception, cpc, ret,
                 results, sub_workers_stopped, cleanup_hooks, at_exit, tasks,
                 fcall, calls, lifecycle, crashed>>

FE_stop_sub_worker_contexts ==
  /\ AtStep("stop_sub_worker_contexts")
  /\ events' = Append(events, Observe("stop_sub_worker_contexts"))
  /\ sub_workers_stopped' = TRUE
  /\ Advance
  /\ UNCHANGED <<env, flags, platform, abort_on_uncaught_exception, cpc, ret,
                 results, stopped, cleanup_hooks, at_exit, tasks, fcall, calls,
                 lifecycle, crashed>>

\* env->RunCleanup(): runs every registered cleanup hook.
FE_RunCleanup ==
  /\ AtStep("RunCleanup")
  /\ events' = events \o <<Observe("RunCleanup")>> \o
       [i \in 1..cleanup_hooks |->
          [Observe("cleanup_hook") EXCEPT !.cleanup = cleanup_hooks - i + 1]]
  /\ cleanup_hooks' = 0
  /\ Advance
  /\ UNCHANGED <<env, flags, platform, abort_on_uncaught_exception, cpc, ret,
                 results, stopped, sub_workers_stopped, at_exit, tasks, fcall,
                 calls, lifecycle, crashed>>

\* RunAtExit(env): runs every registered at-exit callback.
FE_RunAtExit ==
  /\ AtStep("RunAtExit")
  /\ events' = events \o <<Observe("RunAtExit")>> \o
       [i \in 1..at_exit |->
          [Observe("at_exit") EXCEPT !.atexit = at_exit - i + 1]]
  /\ at_exit' = 0
  /\ Advance
  /\ UNCHANGED <<env, flags, platform, abort_on_uncaught_exception, cpc, ret,
                 results, stopped, sub_workers_stopped, cleanup_hooks, tasks,
                 fcall, calls, lifecycle, crashed>>

\* if (platform != nullptr) platform->DrainTasks(env->isolate());
FE_DrainTasks ==
  /\ AtStep("DrainTasks")
  /\ IF platform
       THEN /\ events' = events \o <<Observe("DrainTasks")>> \o
                   [i \in 1..tasks |-> Observe("task")]
            /\ tasks' = 0
       ELSE UNCHANGED <<events, tasks>>
  /\ Advance
  /\ UNCHANGED <<env, flags, platform, abort_on_uncaught_exception, cpc, ret,
                 results, stopped, sub_workers_stopped, cleanup_hooks, at_exit,
                 fcall, calls, lifecycle, crashed>>

\* delete env;
FE_delete ==
  /\ AtStep("delete")
  /\ events' = Append(events, Observe("delete"))
  /\ env' = "deleted"
  /\ lifecycle' = Append(lifecycle, "destroyed")
  /\ Advance
  /\ UNCHANGED <<flags, platform, abort_on_uncaught_exception, cpc, ret,
                 results, stopped, sub_workers_stopped, cleanup_hooks, at_exit,
                 tasks, fcall, calls, crashed>>

\* ----- CreateEnvironment ----------------------------------------------------

\* new Environment(...), and the kOwnsProcessState adjustment.
CE_New ==
  /\ cpc = "start"
  /\ \E prep \in BOOLEAN, owns \in BOOLEAN, plat \in BOOLEAN,
        nc \in 0..MaxHooks, na \in 0..MaxHooks :
       /\ flags' = [kPrepareForExecution |-> prep, kOwnsProcessState |-> owns]
       /\ platform' = plat
       /\ cleanup_hooks' = nc
       /\ at_exit' = na
       /\ abort_on_uncaught_exception' = ~owns
  /\ env' = "alive"
  /\ cpc' = "RunBootstrapping"
  /\ calls' = [calls EXCEPT !.create = @ + 1]
  /\ lifecycle' = Append(lifecycle, "constructed")
  /\ UNCHANGED <<ret, results, stopped, sub_workers_stopped, tasks, fpc, fcall,
                 events, crashed>>

\* A RunBootstrapping whose failure is ignored: construction goes on.
CE_RunBootstrapping_IgnoreFailure ==
  /\ cpc = "RunBootstrapping"
  /\ \E ok \in BOOLEAN :
       /\ results' = [results EXCEPT !.RunBootstrapping =
                                        IF ok THEN "ok" ELSE "empty"]
       /\ IF flags.kPrepareForExecution
            THEN /\ cpc' = "ExecuteBootstrapper"
                 /\ lifecycle' = Append(lifecycle, "bootstrapping")
                 /\ UNCHANGED ret
            ELSE /\ cpc' = "returned"
                 /\ ret' = "env"
                 /\ lifecycle' = lifecycle \o <<"bootstrapping", "ready">>
  /\ UNCHANGED <<env, flags, platform, abort_on_uncaught_exception, stopped,
                 sub_workers_stopped, cleanup_hooks, at_exit, tasks, fpc,
                 fcall, calls, events, crashed>>

\* if (env->RunBootstrapping().IsEmpty()) { FreeEnvironment(env); ... }
\* if (!should_run_prepare) return env;
CE_RunBootstrapping ==
  /\ cpc = "RunBootstrapping"
  /\ \E ok \in BOOLEAN :
       /\ results' = [results EXCEPT !.RunBootstrapping =
                                        IF ok THEN "ok" ELSE "empty"]
       /\ IF ~ok
            THEN /\ cpc' = "FreeEnvironment"
                 /\ fpc' = 1
                 /\ fcall' = [caller |-> "CreateEnvironment",
                              dangling |-> FALSE]
                 /\ calls' = [calls EXCEPT !.free = @ + 1]
                 /\ lifecycle' =
                      lifecycle \o <<"bootstrapping", "cleaning-up">>
                 /\ UNCHANGED ret
            ELSE IF flags.kPrepareForExecution
            THEN /\ cpc' = "ExecuteBootstrapper"
                 /\ lifecycle' = Append(lifecycle, "bootstrapping")
                 /\ UNCHANGED <<ret, fpc, fcall, calls>>
            ELSE /\ cpc' = "returned"
                 /\ ret' = "env"
                 /\ lifecycle' = lifecycle \o <<"bootstrapping", "ready">>
                 /\ UNCHANGED <<fpc, fcall, calls>>
  /\ UNCHANGED <<env, flags, platform, abort_on_uncaught_exception, stopped,
                 sub_workers_stopped, cleanup_hooks, at_exit, tasks, events,
                 crashed>>

\* if (ExecuteBootstrapper(env, "internal/bootstrap/environment", ...)
\*         .IsEmpty()) { FreeEnvironment(env); ... }  return env;
CE_ExecuteBootstrapper ==
  /\ cpc = "ExecuteBootstrapper"
  /\ \E ok \in BOOLEAN :
       /\ results' = [results EXCEPT !.ExecuteBootstrapper =
                                        IF ok THEN "ok" ELSE "empty"]
       /\ IF ~ok
            THEN /\ cpc' = "FreeEnvironment"
                 /\ EnterFreeEnvironment("CreateEnvironment", FALSE)
                 /\ UNCHANGED ret
            ELSE /\ cpc' = "returned"
                 /\ ret' = "env"
                 /\ lifecycle' = Append(lifecycle, "ready")
                 /\ UNCHANGED <<fpc, fcall, calls>>
  /\ UNCHANGED <<env, flags, platform, abort_on_uncaught_exception, stopped,
                 sub_workers_stopped, cleanup_hooks, at_exit, tasks, events,
                 crashed>>

\* A failure path that hands the torn-down Environment to the caller.
CE_ReturnNull_ReturnsEnv ==
  /\ cpc = "FreeEnvironment"
  /\ fpc = 0
  /\ ~crashed
  /\ cpc' = "returned"
  /\ ret' = "env"
  /\ lifecycle' = Append(lifecycle, "ready")
  /\ UNCHANGED <<env, flags, platform, abort_on_uncaught_exception, results,
                 stopped, sub_workers_stopped, cleanup_hooks, at_exit, tasks,
                 fpc, fcall, calls, events, crashed>>

\* return nullptr; after the FreeEnvironment call of a failure path returned.
CE_ReturnNull ==
  /\ cpc = "FreeEnvironment"
  /\ fpc = 0
  /\ ~crashed
  /\ cpc' = "returned"
  /\ ret' = "nullptr"
  /\ UNCHANGED <<env, flags, platform, abort_on_uncaught_exception, results,
                 stopped, sub_workers_stopped, cleanup_hooks, at_exit, tasks,
                 fpc, fcall, calls, events, lifecycle, crashed>>

\* ----- calls of the embedder on the Environment it was handed -----------------

\* The embedder holds a pointer to the Environment and no call is running.
Holds == ret = "env" /\ fpc = 0 /\ ~crashed

Dangling == env = "deleted"

\* LoadEnvironment(env, cb, inspector_parent_handle): InitializeLibuv,
\* InitializeDiagnostics, InitializeInspector, StartExecution.  Nothing in it
\* looks at whether it ran before.  On a released Environment the behaviour is
\* undefined: the process crashes or goes on.
LoadEnvironment ==
  /\ Holds
  /\ calls.load < MaxLoadCalls
  /\ Dangling => calls.dangling < MaxDanglingCalls
  /\ calls' = [calls EXCEPT !.load = @ + 1,
                            !.dangling = IF Dangling THEN @ + 1 ELSE @]
  /\ \/ /\ lifecycle' = Append(lifecycle, "executing")
        /\ UNCHANGED crashed
     \/ /\ Dangling
        /\ crashed' = TRUE
        /\ UNCHANGED lifecycle
  /\ UNCHANGED <<env, flags, platform, abort_on_uncaught_exception, cpc, ret,
                 results, stopped, sub_workers_stopped, cleanup_hooks, at_exit,
                 tasks, fpc, fcall, events>>

\* FreeEnvironment(env) called by the embedder.  On a released Environment the
\* behaviour is undefined: the process crashes or the teardown runs again.
FreeEnvironment ==
  /\ Holds
  /\ Dangling => calls.dangling < MaxDanglingCalls
  /\ \/ /\ EnterFreeEnvironment("embedder", Dangling)
        /\ UNCHANGED crashed
     \/ /\ Dangling
        /\ crashed' = TRUE
        /\ UNCHANGED <<fpc, fcall, lifecycle>>
        /\ calls' = [calls EXCEPT !.free = @ + 1, !.dangling = @ + 1]
  /\ UNCHANGED <<env, flags, platform, abort_on_uncaught_exception, cpc, ret,
                 results, stopped, sub_workers_stopped, cleanup_hooks, at_exit,
                 tasks, events>>

\* A background thread of the platform schedules a task for the isolate.
PostTask ==
  /\ env = "alive"
  /\ platform
  /\ ~crashed
  /\ tasks < MaxTasks
  /\ tasks' = tasks + 1
  /\ UNCHANGED <<env, flags, platform, abort_on_uncaught_exception, cpc, ret,
                 results, stopped, sub_workers_stopped, cleanup_hooks, at_exit,
                 fpc, fcall, calls, events, lifecycle, crashed>>


\* ----- the heap under the allocator -----------------------------------------

NULL == 0
CRASH == -1
Ptrs == 1..MaxPtr
Sizes == 0..MaxSize

\* The old_size a caller of Reallocate passes: any size, also one that no
\* request was made with.
OldSizes == 0..(MaxSize + 1)

EmptyMap == [p \in {} |-> 0]
Erase(m, k) == [p \in DOMAIN m \ {k} |-> m[p]]
Insert(m, k, v) == [p \in DOMAIN m \cup {k} |-> IF p = k THEN v ELSE m[p]]

\* UncheckedMalloc / UncheckedCalloc: nullptr, or the address of a new block.
HeapAllocate(h) ==
  {[ret |-> NULL, heap |-> h, crash |-> FALSE]} \cup
  {[ret |-> p, heap |-> h \cup {p}, crash |-> FALSE] : p \in Ptrs \ h}

\* NodeArrayBufferAllocator::Allocate: calloc or malloc, by the zero-fill flags.
NodeAllocate(h, size) == HeapAllocate(h)

\* NodeArrayBufferAllocator::AllocateUninitialized.
NodeAllocateUninitialized(h, size) == HeapAllocate(h)

\* NodeArrayBufferAllocator::Free: free(data).
NodeFree(h, data) == h \ {data}

\* NodeArrayBufferAllocator::Reallocate: size 0 frees the block and yields
\* nullptr; otherwise nullptr with the block kept, or the block resized in
\* place or moved.  On a pointer that is not a live block the behaviour is
\* undefined: the process may crash, or the call goes on as on a live block.
NodeReallocate(h, data, size) ==
  (IF size = 0
     THEN {[ret |-> NULL, heap |-> h \ {data}, crash |-> FALSE]}
     ELSE {[ret |-> NULL, heap |-> h, crash |-> FALSE]} \cup
          {[ret |-> p, heap |-> (h \ {data}) \cup {p}, crash |-> FALSE] :
             p \in (Ptrs \ h) \cup ({data} \ {NULL})})
  \cup (IF data # NULL /\ data \notin h
          THEN {[ret |-> CRASH, heap |-> h, crash |-> TRUE]}
          ELSE {})

\* ----- DebuggingArrayBufferAllocator ------------------------------------------

Ok(m) == [allocations |-> m, check |-> "none"]
Fatal(m, c) == [allocations |-> m, check |-> c]

\* UnregisterPointerInternal without the size comparison.
UnregisterPointerInternal_NoSizeCheck(m, data, size) ==
  IF data = NULL THEN Ok(m)
  ELSE IF data \notin DOMAIN m THEN Fatal(m, "CHECK_NE(it, end)")
  ELSE Ok(Erase(m, data))

\* UnregisterPointerInternal that lets an untracked pointer through.
UnregisterPointerInternal_NoLookupCheck(m, data, size) ==
  IF data = NULL THEN Ok(m)
  ELSE IF data \notin DOMAIN m THEN Ok(m)
  ELSE IF size > 0 /\ m[data] # size THEN Fatal(m, "CHECK_EQ(it->second, size)")
  ELSE Ok(Erase(m, data))

\* UnregisterPointerInternal that checks but does not erase the record.
UnregisterPointerInternal_NoErase(m, data, size) ==
  IF data = NULL THEN Ok(m)
  ELSE IF data \notin DOMAIN m THEN Fatal(m, "CHECK_NE(it, end)")
  ELSE IF size > 0 /\ m[data] # size THEN Fatal(m, "CHECK_EQ(it->second, size)")
  ELSE Ok(m)

UnregisterPointerInternal(m, data, size) ==
  IF data = NULL THEN Ok(m)
  ELSE IF data \notin DOMAIN m THEN Fatal(m, "CHECK_NE(it, end)")
  ELSE IF size > 0 /\ m[data] # size THEN Fatal(m, "CHECK_EQ(it->second, size)")
  ELSE Ok(Erase(m, data))

\* RegisterPointerInternal without the early return on nullptr.
RegisterPointerInternal_TracksNull(m, data, size) ==
  IF data \in DOMAIN m THEN Fatal(m, "CHECK_EQ(count, 0)")
  ELSE Ok(Insert(m, data, size))

RegisterPointerInternal(m, data, size) ==
  IF data = NULL THEN Ok(m)
  ELSE IF data \in DOMAIN m THEN Fatal(m, "CHECK_EQ(count, 0)")
  ELSE Ok(Insert(m, data, size))

\* Reallocate's map update that leaves the record of the original pointer.
ReallocateTracking_KeepsOld(m, data, old_size, size, r) ==
  IF r = NULL
    THEN IF size = 0 THEN UnregisterPointerInternal(m, data, old_size)
                     ELSE Ok(m)
  ELSE IF data # NULL /\ data \notin DOMAIN m
    THEN Fatal(m, "CHECK_NE(it, end)")
  ELSE IF r = data THEN Ok(Insert(m, r, size))
  ELSE RegisterPointerInternal(m, r, size)

\* Reallocate's map update without the size == 0 case of a nullptr result.
ReallocateTracking_NoFreeOnZero(m, data, old_size, size, r) ==
  IF r = NULL
    THEN Ok(m)
  ELSE IF data # NULL /\ data \notin DOMAIN m
    THEN Fatal(m, "CHECK_NE(it, end)")
  ELSE RegisterPointerInternal(Erase(m, data), r, size)

\* Reallocate's map update that treats every nullptr result as a free.
ReallocateTracking_FreesOnNull(m, data, old_size, size, r) ==
  IF r = NULL
    THEN UnregisterPointerInternal(m, data, old_size)
  ELSE IF data # NULL /\ data \notin DOMAIN m
    THEN Fatal(m, "CHECK_NE(it, end)")
  ELSE RegisterPointerInternal(Erase(m, data), r, size)

\* Reallocate's map update that compares old_size with the recorded size on
\* the non-null path too.
ReallocateTracking_ChecksOldSize(m, data, old_size, size, r) ==
  IF r = NULL
    THEN IF size = 0 THEN UnregisterPointerInternal(m, data, old_size)
                     ELSE Ok(m)
  ELSE LET u == UnregisterPointerInternal(m, data, old_size) IN
         IF u.check # "none" THEN u
                             ELSE RegisterPointerInternal(u.allocations, r, size)

\* What Reallocate does to the map once the underlying reallocation returned r.
ReallocateTracking(m, data, old_size, size, r) ==
  IF r = NULL
    THEN IF size = 0 THEN UnregisterPointerInternal(m, data, old_size)
                     ELSE Ok(m)
  ELSE IF data # NULL /\ data \notin DOMAIN m
    THEN Fatal(m, "CHECK_NE(it, end)")
  ELSE RegisterPointerInternal(Erase(m, data), r, size)

Running == aborted = "none" /\ ~destroyed

Call(op, data, old_size, size, r) ==
  [op |-> op, data |-> data, old_size |-> old_size, size |-> size, ret |-> r]

\* The pointers handed out and not released, after a call that did not abort.
Hand(m, released, r, size) ==
  IF r = NULL THEN Erase(m, released) ELSE Insert(Erase(m, released), r, size)

\* The part Allocate and AllocateUninitialized share: the block o.ret came from
\* the underlying allocator and is registered with the requested size.
Allocated(op, size, o) ==
  LET t == RegisterPointerInternal(allocations_, o.ret, size) IN
    /\ heap' = o.heap
    /\ allocations_' = t.allocations
    /\ aborted' = t.check
    /\ last' = Call(op, NULL, 0, size, o.ret)
    /\ expected' = Hand(expected, NULL, o.ret, size)
    /\ pairs' = IF pairs.only
                  THEN [pairs EXCEPT !.pending = @ \cup ({o.ret} \ {NULL})]
                  ELSE pairs
    /\ UNCHANGED destroyed

Allocate ==
  /\ Running
  /\ \E size \in Sizes :
       \E o \in NodeAllocate(heap, size) : Allocated("Allocate", size, o)

AllocateUninitialized ==
  /\ Running
  /\ \E size \in Sizes :
       \E o \in NodeAllocateUninitialized(heap, size) :
          Allocated("AllocateUninitialized", size, o)

Free ==
  /\ Running
  /\ \E data \in Ptrs \cup {NULL}, size \in Sizes :
       LET t == UnregisterPointerInternal(allocations_, data, size) IN
         /\ allocations_' = t.allocations
         /\ aborted' = t.check
         /\ heap' = IF t.check = "none" THEN NodeFree(heap, data) ELSE heap
         /\ last' = Call("Free", data, 0, size, NULL)
         /\ expected' = IF t.check = "none" THEN Erase(expected, data)
                                            ELSE expected
         /\ pairs' = IF t.check = "none"
                       THEN [pairs EXCEPT !.pending = @ \ {data}]
                       ELSE pairs
  /\ UNCHANGED destroyed

Reallocate ==
  /\ Running
  /\ \E data \in Ptrs \cup {NULL}, old_size \in OldSizes, size \in Sizes :
       \E o \in NodeReallocate(heap, data, size) :
         /\ last' = Call("Reallocate", data, old_size, size, o.ret)
         /\ pairs' = [only |-> FALSE, pending |-> {}]
         /\ IF o.crash
              THEN /\ aborted' = "heap"
                   /\ UNCHANGED <<heap, allocations_, expected>>
              ELSE LET t == ReallocateTracking(allocations_, data, old_size,
                                               size, o.ret) IN
                     /\ heap' = o.heap
                     /\ allocations_' = t.allocations
                     /\ aborted' = t.check
                     /\ expected' =
                          IF t.check # "none" \/ (o.ret = NULL /\ size # 0)
                            THEN expected
                            ELSE Hand(expected, data, o.ret, size)
  /\ UNCHANGED destroyed

\* RegisterPointer(data, size), for a block another subsystem allocated.
RegisterPointer ==
  /\ Running
  /\ \E data \in heap \cup {NULL}, size \in Sizes :
       LET t == RegisterPointerInternal(allocations_, data, size) IN
         /\ allocations_' = t.allocations
         /\ aborted' = t.check
         /\ last' = Call("RegisterPointer", data, 0, size, NULL)
         /\ expected' = IF t.check = "none"
                          THEN Hand(expected, NULL, data, size)
                          ELSE expected
  /\ pairs' = [only |-> FALSE, pending |-> {}]
  /\ UNCHANGED <<heap, destroyed>>

UnregisterPointer ==
  /\ Running
  /\ \E data \in Ptrs \cup {NULL}, size \in Sizes :
       LET t == UnregisterPointerInternal(allocations_, data, size) IN
         /\ allocations_' = t.allocations
         /\ aborted' = t.check
         /\ last' = Call("UnregisterPointer", data, 0, size, NULL)
         /\ expected' = IF t.check = "none" THEN Erase(expected, data)
                                            ELSE expected
  /\ pairs' = [only |-> FALSE, pending |-> {}]
  /\ UNCHANGED <<heap, destroyed>>

\* ~DebuggingArrayBufferAllocator: CHECK(allocations_.empty()).
Destroy ==
  /\ Running
  /\ destroyed' = TRUE
  /\ aborted' = IF allocations_ = EmptyMap THEN "none"
                                           ELSE "CHECK(allocations_.empty())"
  /\ last' = Call("~DebuggingArrayBufferAllocator", NULL, 0, 0, NULL)
  /\ UNCHANGED <<heap, allocations_, expected, pairs>>

\* Another subsystem allocates a block it may later hand to RegisterPointer.
ExternalAllocate ==
  /\ Running
  /\ \E p \in Ptrs \ heap : heap' = heap \cup {p}
  /\ last' = Call("external", NULL, 0, 0, NULL)
  /\ UNCHANGED <<allocations_, aborted, destroyed, expected, pairs>>

\* Another subsystem frees a block of its own that the allocator does not track.
ExternalFree ==
  /\ Running
  /\ \E p \in heap \ DOMAIN allocations_ : heap' = heap \ {p}
  /\ last' = Call("external", NULL, 0, 0, NULL)
  /\ UNCHANGED <<allocations_, aborted, destroyed, expected, pairs>>

InitAlloc ==
  /\ heap = {}
  /\ allocations_ = EmptyMap
  /\ aborted = "none"
  /\ destroyed = FALSE
  /\ last = Call("none", NULL, 0, 0, NULL)
  /\ expected = EmptyMap
  /\ pairs = [only |-> TRUE, pending |-> {}]


\* ----- AllocateEnvironmentThreadId ------------------------------------------

Threads == 1..NumThreads

\* next_thread_id++ done as a plain load and store: the increment is lost when
\* another thread is between its own load and its return.
TID_PostIncrement_Racy(t) ==
  /\ tid_pc[t] = "idle"
  /\ Len(issued) < MaxIds
  /\ tid_val' = [tid_val EXCEPT ![t] = next_thread_id]
  /\ next_thread_id' =
       IF \E u \in Threads \ {t} : tid_pc[u] = "incremented"
         THEN next_thread_id
         ELSE next_thread_id + 1
  /\ issued' = Append(issued, next_thread_id)
  /\ tid_pc' = [tid_pc EXCEPT ![t] = "incremented"]
  /\ UNCHANGED got

\* next_thread_id++ on the std::atomic: one indivisible fetch-and-add.
TID_PostIncrement(t) ==
  /\ tid_pc[t] = "idle"
  /\ Len(issued) < MaxIds
  /\ tid_val' = [tid_val EXCEPT ![t] = next_thread_id]
  /\ next_thread_id' = next_thread_id + 1
  /\ issued' = Append(issued, next_thread_id)
  /\ tid_pc' = [tid_pc EXCEPT ![t] = "incremented"]
  /\ UNCHANGED got

\* return ThreadId { ... };
TID_Return(t) ==
  /\ tid_pc[t] = "incremented"
  /\ got' = [got EXCEPT ![t] = Append(@, tid_val[t])]
  /\ tid_pc' = [tid_pc EXCEPT ![t] = "idle"]
  /\ UNCHANGED <<next_thread_id, tid_val, issued>>

InitTid ==
  /\ next_thread_id = 0
  /\ tid_pc = [t \in Threads |-> "idle"]
  /\ tid_val = [t \in Threads |-> 0]
  /\ issued = <<>>
  /\ got = [t \in Threads |-> <<>>]


\* ----- NewIsolate ------------------------------------------------------------

V8Default == 0

Min(a, b) == IF a < b THEN a ELSE b

\* SetIsolateCreateParamsForNode: the heap size handed to ConfigureDefaults,
\* or V8Default when ConfigureDefaults is not called.
SetIsolateCreateParamsForNode(constrained_memory, uv_total_memory) ==
  LET total_memory == IF constrained_memory > 0
                        THEN Min(uv_total_memory, constrained_memory)
                        ELSE uv_total_memory
  IN IF total_memory > 0 THEN total_memory ELSE V8Default

\* Isolate::Initialize ahead of platform->RegisterIsolate.
NewIsolateSteps_InitializeFirst ==
  <<"if", "Initialize", "RegisterIsolate", "SetIsolateCreateParamsForNode",
    "SetIsolateUpForNode", "return">>

\* SetIsolateUpForNode ahead of Isolate::Initialize.
NewIsolateSteps_HandlersFirst ==
  <<"if", "RegisterIsolate", "SetIsolateCreateParamsForNode",
    "SetIsolateUpForNode", "Initialize", "return">>

\* The statements of NewIsolate after Isolate::Allocate, in program order.
NewIsolateSteps ==
  <<"if", "RegisterIsolate", "SetIsolateCreateParamsForNode", "Initialize",
    "SetIsolateUpForNode", "return">>

IsoAt(name) ==
  /\ iso_pc \in 1..Len(NewIsolateSteps)
  /\ NewIsolateSteps[iso_pc] = name

IsoAdvance ==
  /\ iso_pc' = iso_pc + 1
  /\ iso_log' = Append(iso_log, NewIsolateSteps[iso_pc])

\* if (isolate == nullptr) with the test left out.
IsNullIsolate_Unchecked(i) == FALSE

\* if (isolate == nullptr)
IsNullIsolate(i) == i = NULL

\* Isolate* isolate = Isolate::Allocate();
NI_Allocate ==
  /\ iso_pc = 0
  /\ iso_count < MaxIsolateCalls
  /\ \E ok \in BOOLEAN :
       isolate' = IF ok THEN iso_count + 1 ELSE NULL
  /\ iso_count' = iso_count + 1
  /\ iso_ret' = CRASH
  /\ iso_log' = <<"Allocate">>
  /\ constraints' = V8Default
  /\ iso_pc' = 1
  /\ UNCHANGED <<registered, initialized, handlers>>

\* if (isolate == nullptr) return nullptr;
NI_CheckAllocated ==
  /\ IsoAt("if")
  /\ IF IsNullIsolate(isolate)
       THEN /\ iso_ret' = NULL
            /\ iso_pc' = 0
       ELSE /\ iso_pc' = iso_pc + 1
            /\ UNCHANGED iso_ret
  /\ UNCHANGED <<isolate, iso_count, registered, initialized, handlers,
                 constraints, iso_log>>

\* platform->RegisterIsolate(isolate, event_loop);
NI_RegisterIsolate ==
  /\ IsoAt("RegisterIsolate")
  /\ registered' = registered \cup {isolate}
  /\ IsoAdvance
  /\ UNCHANGED <<isolate, iso_ret, iso_count, initialized, handlers,
                 constraints>>

\* SetIsolateCreateParamsForNode(params);
NI_SetIsolateCreateParamsForNode ==
  /\ IsoAt("SetIsolateCreateParamsForNode")
  /\ \E constrained_memory \in 0..MaxMem, uv_total_memory \in 0..MaxMem :
       constraints' =
         SetIsolateCreateParamsForNode(constrained_memory, uv_total_memory)
  /\ IsoAdvance
  /\ UNCHANGED <<isolate, iso_ret, iso_count, registered, initialized,
                 handlers>>

\* Isolate::Initialize(isolate, *params);
NI_Initialize ==
  /\ IsoAt("Initialize")
  /\ initialized' = initialized \cup {isolate}
  /\ IsoAdvance
  /\ UNCHANGED <<isolate, iso_ret, iso_count, registered, handlers,
                 constraints>>

\* SetIsolateUpForNode(isolate);
NI_SetIsolateUpForNode ==
  /\ IsoAt("SetIsolateUpForNode")
  /\ handlers' = handlers \cup {isolate}
  /\ IsoAdvance
  /\ UNCHANGED <<isolate, iso_ret, iso_count, registered, initialized,
                 constraints>>

\* return isolate;
NI_Return ==
  /\ IsoAt("return")
  /\ iso_ret' = isolate
  /\ iso_pc' = 0
  /\ UNCHANGED <<isolate, iso_count, registered, initialized, handlers,
                 constraints, iso_log>>

InitIso ==
  /\ iso_pc = 0
  /\ isolate = NULL
  /\ iso_ret = CRASH
  /\ iso_count = 0
  /\ registered = {}
  /\ initialized = {}
  /\ handlers = {}
  /\ constraints = V8Default
  /\ iso_log = <<>>


\* ----- NewContext, InitializeContext -----------------------------------------

\* The list with its two units swapped.
context_files_Swapped ==
  <<"internal/per_context/domexception", "internal/per_context/primordials">>

\* static const char* context_files[]
context_files ==
  <<"internal/per_context/primordials", "internal/per_context/domexception">>

\* What a v8 call returning Maybe<bool> can yield.
MaybeBool == {"Just(true)", "Just(false)", "Nothing"}

\* The context Context::New yields: nothing of node installed or removed yet.
FreshContext ==
  [kAllowWasmCodeGeneration |-> "unset",
   primordials |-> FALSE,
   v8BreakIterator |-> TRUE,
   wake |-> TRUE]

\* if (!InitializeContextForSnapshot(context)) with the result ignored.
SnapshotStageFailed_Ignored(r) == FALSE

\* if (!InitializeContextForSnapshot(context))
SnapshotStageFailed(r) == r = "false"

\* The embedder calls NewContext (Context::New may yield an empty handle) or
\* InitializeContext on a context of its own.
CTX_Enter ==
  /\ ctx_pc = "idle"
  /\ ~ctx_crashed
  /\ ctx_calls < MaxContextCalls
  /\ ctx_calls' = ctx_calls + 1
  /\ snapshot_ret' = "none"
  /\ initialize_ret' = "none"
  /\ runtime_runs' = 0
  /\ ctx_log' = <<>>
  /\ module' = 0
  /\ context' = FreshContext
  /\ \E entry \in {"NewContext", "InitializeContext"}, empty \in BOOLEAN :
       /\ ctx_entry' = entry
       /\ IF entry = "NewContext" /\ empty
            THEN /\ new_ret' = "empty"
                 /\ ctx_pc' = "idle"
            ELSE /\ new_ret' = "none"
                 /\ ctx_pc' = "InitializeContextForSnapshot"
  /\ UNCHANGED ctx_crashed

\* InitializeContextForSnapshot up to the loop: the embedder data and the
\* primordials object.
ICS_Primordials ==
  /\ ctx_pc = "InitializeContextForSnapshot"
  /\ \E SetPrototype \in MaybeBool, exports \in BOOLEAN, Set \in MaybeBool :
       LET nothing == \/ SetPrototype = "Nothing"
                      \/ (SetPrototype = "Just(true)" /\ exports
                          /\ Set = "Nothing")
           ok == SetPrototype = "Just(true)" /\ exports /\ Set = "Just(true)"
       IN /\ ctx_crashed' = nothing
          /\ context' = [context EXCEPT !.kAllowWasmCodeGeneration = TRUE,
                                        !.primordials = ok]
          /\ IF nothing
               THEN /\ ctx_pc' = "crashed"
                    /\ UNCHANGED <<module, snapshot_ret>>
               ELSE IF ok
                 THEN /\ ctx_pc' = "for"
                      /\ module' = 1
                      /\ UNCHANGED snapshot_ret
                 ELSE /\ ctx_pc' = "snapshot returned"
                      /\ snapshot_ret' = "false"
                      /\ UNCHANGED module
  /\ UNCHANGED <<ctx_entry, initialize_ret, new_ret, ctx_calls, runtime_runs,
                 ctx_log>>

\* NativeModuleEnv::LookupAndCompile(context, *module, ...) and the test of
\* maybe_fn.
ICS_LookupAndCompile ==
  /\ ctx_pc = "for"
  /\ module <= Len(context_files)
  /\ \E compiled \in BOOLEAN :
       /\ ctx_log' = Append(ctx_log, [unit |-> context_files[module],
                                      step |-> "compile", ok |-> compiled])
       /\ IF compiled
            THEN /\ ctx_pc' = "Call"
                 /\ UNCHANGED snapshot_ret
            ELSE /\ ctx_pc' = "snapshot returned"
                 /\ snapshot_ret' = "false"
  /\ UNCHANGED <<ctx_entry, context, module, initialize_ret, new_ret,
                 ctx_crashed, ctx_calls, runtime_runs>>

\* fn->Call(...), the test of result, and module++.
ICS_Call ==
  /\ ctx_pc = "Call"
  /\ \E nonempty \in BOOLEAN :
       /\ ctx_log' = Append(ctx_log, [unit |-> context_files[module],
                                      step |-> "run", ok |-> nonempty])
       /\ IF nonempty
            THEN /\ ctx_pc' = "for"
                 /\ module' = module + 1
                 /\ UNCHANGED snapshot_ret
            ELSE /\ ctx_pc' = "snapshot returned"
                 /\ snapshot_ret' = "false"
                 /\ UNCHANGED module
  /\ UNCHANGED <<ctx_entry, context, initialize_ret, new_ret, ctx_crashed,
                 ctx_calls, runtime_runs>>

\* The loop ends at the nullptr entry: return true;
ICS_ReturnTrue ==
  /\ ctx_pc = "for"
  /\ module > Len(context_files)
  /\ snapshot_ret' = "true"
  /\ ctx_pc' = "snapshot returned"
  /\ UNCHANGED <<ctx_entry, context, module, initialize_ret, new_ret,
                 ctx_crashed, ctx_calls, runtime_runs, ctx_log>>

\* InitializeContext: if (!InitializeContextForSnapshot(context)) return false;
IC_TestSnapshotStage ==
  /\ ctx_pc = "snapshot returned"
  /\ IF SnapshotStageFailed(snapshot_ret)
       THEN /\ initialize_ret' = "false"
            /\ ctx_pc' = "initialize returned"
       ELSE /\ ctx_pc' = "InitializeContextRuntime"
            /\ UNCHANGED initialize_ret
  /\ UNCHANGED <<ctx_entry, context, module, snapshot_ret, new_ret,
                 ctx_crashed, ctx_calls, runtime_runs, ctx_log>>

\* InitializeContextRuntime, then InitializeContext's return true. A Delete
\* that yields Nothing ends the process in FromJust().
ICR_Runtime ==
  /\ ctx_pc = "InitializeContextRuntime"
  /\ runtime_runs' = runtime_runs + 1
  /\ \E intl_is_object \in BOOLEAN, delete_iter \in MaybeBool,
        atomics_is_object \in BOOLEAN, delete_wake \in MaybeBool :
       LET nothing == \/ (intl_is_object /\ delete_iter = "Nothing")
                      \/ (atomics_is_object /\ delete_wake = "Nothing")
       IN /\ ctx_crashed' = nothing
          /\ context' =
               [context EXCEPT
                  !.v8BreakIterator =
                     ~(intl_is_object /\ delete_iter = "Just(true)"),
                  !.wake =
                     IF intl_is_object /\ delete_iter = "Nothing"
                       THEN TRUE
                       ELSE ~(atomics_is_object /\ delete_wake = "Just(true)")]
          /\ IF nothing
               THEN /\ ctx_pc' = "crashed"
                    /\ UNCHANGED initialize_ret
               ELSE /\ ctx_pc' = "initialize returned"
                    /\ initialize_ret' = "true"
  /\ UNCHANGED <<ctx_entry, module, snapshot_ret, new_ret, ctx_calls, ctx_log>>

\* InitializeContext has returned: to the embedder, or to NewContext, which
\* returns the context or an empty handle.
CTX_Return ==
  /\ ctx_pc = "initialize returned"
  /\ new_ret' = IF ctx_entry = "NewContext"
                  THEN IF initialize_ret = "false" THEN "empty" ELSE "context"
                  ELSE "none"
  /\ ctx_pc' = "idle"
  /\ UNCHANGED <<ctx_entry, context, module, snapshot_ret, initialize_ret,
                 ctx_crashed, ctx_calls, runtime_runs, ctx_log>>

InitCtx ==
  /\ ctx_pc = "idle"
  /\ ctx_entry = "none"
  /\ context = FreshContext
  /\ module = 0
  /\ snapshot_ret = "none"
  /\ initialize_ret = "none"
  /\ new_ret = "none"
  /\ ctx_crashed = FALSE
  /\ ctx_calls = 0
  /\ runtime_runs = 0
  /\ ctx_log = <<>>


\* ----- LoadEnvironment with a main script source ------------------------------

Envs == 1..NumEnvs

\* The unit name without the thread id.
BootstrapUnitName_Fixed(thread_id) == "embedder_main_"

\* std::string name = "embedder_main_" + std::to_string(env->thread_id());
BootstrapUnitName(thread_id) == "embedder_main_" \o ToString(thread_id)

\* NativeModuleEnv::Add(name, source) on the process-wide table. For a name
\* the table already holds, the entry is kept or replaced.
NativeModuleEnvAdd(table, name, script) ==
  IF name \in DOMAIN table
    THEN {table, [table EXCEPT ![name] = script]}
    ELSE {[n \in DOMAIN table \cup {name} |->
             IF n = name THEN script ELSE table[n]]}

\* CreateEnvironment: new Environment(..., thread_id) records the thread id the
\* caller passes: one it takes from AllocateEnvironmentThreadId for this
\* environment, or one it holds already.
ME_CreateEnvironment(e) ==
  /\ envs[e].state = "none"
  /\ \/ /\ envs' = [envs EXCEPT ![e].state = "created",
                                ![e].thread_id = next_thread_id]
        /\ next_thread_id' = next_thread_id + 1
        /\ issued' = Append(issued, next_thread_id)
     \/ /\ \E i \in 1..Len(issued) :
             envs' = [envs EXCEPT ![e].state = "created",
                                  ![e].thread_id = issued[i]]
        /\ UNCHANGED <<next_thread_id, issued>>
  /\ UNCHANGED <<source_, tid_pc, tid_val, got>>

\* LoadEnvironment(env, main_script_source_utf8): the callback builds the name
\* and adds the script of this environment to the table.
ME_Add(e) ==
  /\ envs[e].state = "created"
  /\ LET name == BootstrapUnitName(envs[e].thread_id)
     IN /\ source_' \in NativeModuleEnvAdd(source_, name, e)
        /\ envs' = [envs EXCEPT ![e].state = "added", ![e].name = name]
  /\ UNCHANGED tidVars

\* return ExecuteBootstrapper(env, name.c_str(), &params, &args);
ME_ExecuteBootstrapper(e) ==
  /\ envs[e].state = "added"
  /\ envs' = [envs EXCEPT ![e].state = "executed",
                          ![e].ran = source_[envs[e].name]]
  /\ UNCHANGED <<source_, tidVars>>

InitMain ==
  /\ envs = [e \in Envs |->
               [state |-> "none", thread_id |-> CRASH, name |-> "", ran |-> 0]]
  /\ source_ = [n \in {} |-> 0]


\* ----- AddLinkedBinding -------------------------------------------------------

\* env->extra_linked_bindings_head(): the address of the first element of the
\* list, nullptr for an empty list. An address is the element's position.
extra_linked_bindings_head(list) == IF list = <<>> THEN NULL ELSE 1

\* Mutex::ScopedLock that does not wait for the mutex.
MutexAvailable_NoMutex(mutex) == TRUE

\* Mutex::ScopedLock lock(...) returns once the mutex is free.
MutexAvailable(mutex) == mutex = NULL

\* CHECK_NOT_NULL(env)
CheckNotNull(e) == e # NULL

\* AddLinkedBinding(env, name, fn, priv) builds the node_module, nm_link
\* nullptr, and calls AddLinkedBinding(env, mod): CHECK_NOT_NULL(env).
ALB_Enter(t) ==
  /\ alb_pc[t] = "idle"
  /\ ~alb_aborted
  /\ alb_calls < MaxBindings
  /\ \E e \in {NULL, 1} :
       IF CheckNotNull(e)
         THEN /\ alb_calls' = alb_calls + 1
              /\ alb_call' = [alb_call EXCEPT ![t].mod = alb_calls + 1,
                                              ![t].env = e]
              /\ alb_pc' = [alb_pc EXCEPT ![t] = "lock"]
              /\ UNCHANGED <<alb_aborted, alb_at_abort>>
         ELSE /\ alb_aborted' = TRUE
              /\ alb_at_abort' = extra_linked_bindings
              /\ UNCHANGED <<alb_calls, alb_call, alb_pc>>
  /\ UNCHANGED <<extra_linked_bindings, extra_linked_bindings_mutex,
                 alb_completed>>

\* Mutex::ScopedLock lock(env->extra_linked_bindings_mutex());
ALB_Lock(t) ==
  /\ alb_pc[t] = "lock"
  /\ ~alb_aborted
  /\ MutexAvailable(extra_linked_bindings_mutex)
  /\ extra_linked_bindings_mutex' = t
  /\ alb_pc' = [alb_pc EXCEPT ![t] = "head"]
  /\ UNCHANGED <<extra_linked_bindings, alb_call, alb_calls, alb_aborted,
                 alb_completed, alb_at_abort>>

\* node_module* prev_head = env->extra_linked_bindings_head();
ALB_Head(t) ==
  /\ alb_pc[t] = "head"
  /\ ~alb_aborted
  /\ alb_call' = [alb_call EXCEPT ![t].prev_head =
                    extra_linked_bindings_head(extra_linked_bindings)]
  /\ alb_pc' = [alb_pc EXCEPT ![t] = "push_back"]
  /\ UNCHANGED <<extra_linked_bindings, extra_linked_bindings_mutex, alb_calls,
                 alb_aborted, alb_completed, alb_at_abort>>

\* push_back(mod), first half: the list reads where its end is.
ALB_PushBackRead(t) ==
  /\ alb_pc[t] = "push_back"
  /\ ~alb_aborted
  /\ alb_call' = [alb_call EXCEPT ![t].seen = extra_linked_bindings]
  /\ alb_pc' = [alb_pc EXCEPT ![t] = "push_back write"]
  /\ UNCHANGED <<extra_linked_bindings, extra_linked_bindings_mutex, alb_calls,
                 alb_aborted, alb_completed, alb_at_abort>>

\* push_back(mod), second half: the copy of mod becomes the element after the
\* end that was read.
ALB_PushBackWrite(t) ==
  /\ alb_pc[t] = "push_back write"
  /\ ~alb_aborted
  /\ extra_linked_bindings' =
       Append(alb_call[t].seen, [mod |-> alb_call[t].mod, nm_link |-> NULL])
  /\ alb_pc' = [alb_pc EXCEPT ![t] = "link"]
  /\ UNCHANGED <<extra_linked_bindings_mutex, alb_call, alb_calls, alb_aborted,
                 alb_completed, alb_at_abort>>

\* if (prev_head != nullptr) prev_head->nm_link = &...->back(); then the
\* function returns and the ScopedLock releases the mutex.
ALB_Link(t) ==
  /\ alb_pc[t] = "link"
  /\ ~alb_aborted
  /\ LET prev_head == alb_call[t].prev_head
     IN extra_linked_bindings' =
          IF prev_head # NULL /\ prev_head \in DOMAIN extra_linked_bindings
            THEN [extra_linked_bindings EXCEPT
                    ![prev_head].nm_link = Len(extra_linked_bindings)]
            ELSE extra_linked_bindings
  /\ extra_linked_bindings_mutex' =
       IF extra_linked_bindings_mutex = t THEN NULL
                                          ELSE extra_linked_bindings_mutex
  /\ alb_completed' = alb_completed \cup {alb_call[t].mod}
  /\ alb_pc' = [alb_pc EXCEPT ![t] = "idle"]
  /\ UNCHANGED <<alb_call, alb_calls, alb_aborted, alb_at_abort>>

InitAlb ==
  /\ extra_linked_bindings = <<>>
  /\ extra_linked_bindings_mutex = NULL
  /\ alb_pc = [t \in Threads |-> "idle"]
  /\ alb_call = [t \in Threads |->
                   [env |-> NULL, mod |-> 0, prev_head |-> NULL, seen |-> <<>>]]
  /\ alb_calls = 0
  /\ alb_aborted = FALSE
  /\ alb_completed = {}
  /\ alb_at_abort = <<>>


\* ----- ShouldAbortOnUncaughtException ----------------------------------------

\* Environment::GetCurrent(isolate): nullptr unless an Environment is bound to
\* the isolate's context.
EnvironmentGetCurrent == IF current = "alive" THEN 1 ELSE NULL

\* The predicate without the is_main_thread / is_stopping term.
ShouldAbortOnUncaughtException_IgnoresStopping(e) ==
  /\ e # NULL
  /\ should_abort_on_uncaught_toggle # 0
  /\ ~(should_not_abort_scope_counter > 0)

\* return env != nullptr &&
\*        (env->is_main_thread() || !env->is_stopping()) &&
\*        env->should_abort_on_uncaught_toggle()[0] &&
\*        !env->inside_should_not_abort_on_uncaught_scope();
ShouldAbortOnUncaughtException(e) ==
  /\ e # NULL
  /\ (is_main_thread \/ ~is_stopping)
  /\ should_abort_on_uncaught_toggle # 0
  /\ ~(should_not_abort_scope_counter > 0)

\* An Environment is created on the isolate, for the main thread or a worker.
AB_CreateEnvironment ==
  /\ current = "none"
  /\ current' = "alive"
  /\ \E main \in BOOLEAN : is_main_thread' = main
  /\ \E toggle \in {0, 1} : should_abort_on_uncaught_toggle' = toggle
  /\ UNCHANGED <<is_stopping, should_not_abort_scope_counter, ab_fpc, ab_ret,
                 ab_seen>>

\* Script flips the toggle.
AB_SetToggle ==
  /\ current = "alive"
  /\ should_abort_on_uncaught_toggle' = 1 - should_abort_on_uncaught_toggle
  /\ UNCHANGED <<current, is_main_thread, is_stopping,
                 should_not_abort_scope_counter, ab_fpc, ab_ret, ab_seen>>

\* A should-not-abort scope is entered.
AB_EnterScope ==
  /\ current = "alive"
  /\ should_not_abort_scope_counter < MaxScopeDepth
  /\ should_not_abort_scope_counter' = should_not_abort_scope_counter + 1
  /\ UNCHANGED <<current, is_main_thread, is_stopping,
                 should_abort_on_uncaught_toggle, ab_fpc, ab_ret, ab_seen>>

\* A should-not-abort scope is left.
AB_LeaveScope ==
  /\ current = "alive"
  /\ should_not_abort_scope_counter > 0
  /\ should_not_abort_scope_counter' = should_not_abort_scope_counter - 1
  /\ UNCHANGED <<current, is_main_thread, is_stopping,
                 should_abort_on_uncaught_toggle, ab_fpc, ab_ret, ab_seen>>

\* FreeEnvironment(env) is called.
AB_FreeEnvironment ==
  /\ current = "alive"
  /\ ab_fpc = 0
  /\ ab_fpc' = 1
  /\ UNCHANGED <<current, is_main_thread, is_stopping,
                 should_abort_on_uncaught_toggle,
                 should_not_abort_scope_counter, ab_ret, ab_seen>>

\* The next statement of FreeEnvironment: set_stopped(true) sets the stop flag
\* and delete releases the Environment.
AB_TeardownStep ==
  /\ ab_fpc \in 1..Len(FreeEnvironmentSteps)
  /\ is_stopping' = (is_stopping \/ FreeEnvironmentSteps[ab_fpc] = "set_stopped")
  /\ current' = IF FreeEnvironmentSteps[ab_fpc] = "delete" THEN "deleted"
                                                            ELSE current
  /\ ab_fpc' = IF ab_fpc = Len(FreeEnvironmentSteps) THEN 0 ELSE ab_fpc + 1
  /\ UNCHANGED <<is_main_thread, should_abort_on_uncaught_toggle,
                 should_not_abort_scope_counter, ab_ret, ab_seen>>

\* The engine asks the predicate whether to abort on an uncaught exception.
AB_ShouldAbortOnUncaughtException ==
  /\ ab_ret' = ShouldAbortOnUncaughtException(EnvironmentGetCurrent)
  /\ ab_seen' = [env |-> current = "alive",
                 main |-> is_main_thread,
                 stopping |-> is_stopping,
                 toggle |-> should_abort_on_uncaught_toggle,
                 inside |-> should_not_abort_scope_counter > 0,
                 fpc |-> ab_fpc]
  /\ UNCHANGED <<current, is_main_thread, is_stopping,
                 should_abort_on_uncaught_toggle,
                 should_not_abort_scope_counter, ab_fpc>>

InitAbort ==
  /\ current = "none"
  /\ is_main_thread = FALSE
  /\ is_stopping = FALSE
  /\ should_abort_on_uncaught_toggle = 0
  /\ should_not_abort_scope_counter = 0
  /\ ab_fpc = 0
  /\ ab_ret = FALSE
  /\ ab_seen = [env |-> FALSE, main |-> FALSE, stopping |-> FALSE,
                toggle |-> 0, inside |-> FALSE, fpc |-> -1]


\* ----- PrepareStackTraceCallback ---------------------------------------------

Exceptions == 1..MaxExceptions

\* A hook that never calls ReThrow.
ShouldReThrow_Never(tc) == FALSE

\* if (try_catch.HasCaught() && !try_catch.HasTerminated())
ShouldReThrow(tc) == tc.caught /\ ~tc.terminated

\* Entry: Environment::GetCurrent(context), env->prepare_stack_trace_callback()
\* and the two tests that select the fallback.
PST_Enter ==
  /\ pst_pc = "idle"
  /\ pst_calls < MaxTraceCalls
  /\ pst_calls' = pst_calls + 1
  /\ \E exception \in Exceptions, e \in BOOLEAN, prepare \in BOOLEAN :
       /\ pst_args' = [exception |-> exception, env |-> e,
                       prepare |-> e /\ prepare]
       /\ pst_pc' = IF ~e \/ ~prepare THEN "ToString" ELSE "Call"
  /\ pst_result' = "none"
  /\ try_catch' = [caught |-> FALSE, terminated |-> FALSE, exception |-> NULL]
  /\ scheduled_exception' = NULL
  /\ pst_ret' = "none"
  /\ pst_outcome' = "none"

\* MaybeLocal<String> s = exception->ToString(context);
PST_ToString ==
  /\ pst_pc = "ToString"
  /\ \E s \in {"string", "empty"} : pst_result' = s
  /\ pst_pc' = "return"
  /\ UNCHANGED <<pst_args, try_catch, scheduled_exception, pst_ret, pst_calls,
                 pst_outcome>>

\* TryCatchScope try_catch(env); result = prepare->Call(...): the callback
\* returns a value, throws, or is cut short by a termination of execution.
PST_Call ==
  /\ pst_pc = "Call"
  /\ \E outcome \in {"value", "exception", "terminated"}, thrown \in Exceptions :
       /\ pst_outcome' = outcome
       /\ pst_result' = IF outcome = "value" THEN "value" ELSE "empty"
       /\ try_catch' = [caught |-> outcome # "value",
                        terminated |-> outcome = "terminated",
                        exception |-> IF outcome = "exception" THEN thrown
                                                               ELSE NULL]
  /\ pst_pc' = "HasCaught"
  /\ UNCHANGED <<pst_args, scheduled_exception, pst_ret, pst_calls>>

\* if (try_catch.HasCaught() && !try_catch.HasTerminated()) try_catch.ReThrow();
PST_ReThrow ==
  /\ pst_pc = "HasCaught"
  /\ scheduled_exception' = IF ShouldReThrow(try_catch) THEN try_catch.exception
                                                        ELSE scheduled_exception
  /\ pst_pc' = "return"
  /\ UNCHANGED <<pst_args, pst_result, try_catch, pst_ret, pst_calls,
                 pst_outcome>>

\* return result; in the fallback, s or an empty MaybeLocal when s is empty.
PST_Return ==
  /\ pst_pc = "return"
  /\ pst_ret' = pst_result
  /\ pst_pc' = "idle"
  /\ UNCHANGED <<pst_args, pst_result, try_catch, scheduled_exception,
                 pst_calls, pst_outcome>>

InitPst ==
  /\ pst_pc = "idle"
  /\ pst_args = [exception |-> NULL, env |-> FALSE, prepare |-> FALSE]
  /\ pst_result = "none"
  /\ try_catch = [caught |-> FALSE, terminated |-> FALSE, exception |-> NULL]
  /\ scheduled_exception = NULL
  /\ pst_ret = "none"
  /\ pst_calls = 0
  /\ pst_outcome = "none"


\* ----- DebuggingArrayBufferAllocator called from several threads --------------

NoCall == [op |-> "none", data |-> NULL, old_size |-> 0, size |-> 0, ret |-> NULL]

\* The function returns: the ScopedLock releases mutex_.
MT_Return(t) ==
  /\ mutex_' = IF mutex_ = t THEN NULL ELSE mutex_
  /\ mt_pc' = [mt_pc EXCEPT ![t] = "idle"]
  /\ mt_call' = [mt_call EXCEPT ![t] = NoCall]

\* A thread calls Allocate, AllocateUninitialized, Free or Reallocate:
\* Mutex::ScopedLock lock(mutex_);
MT_Lock(t) ==
  /\ Running
  /\ mt_pc[t] = "idle"
  /\ MutexAvailable(mutex_)
  /\ mutex_' = t
  /\ \E op \in {"Allocate", "AllocateUninitialized", "Free", "Reallocate"},
        data \in Ptrs \cup {NULL}, old_size \in Sizes, size \in Sizes :
       /\ op \in {"Allocate", "AllocateUninitialized"} => data = NULL
       /\ op # "Reallocate" => old_size = 0
       /\ mt_call' = [mt_call EXCEPT ![t] = Call(op, data, old_size, size, NULL)]
       /\ mt_pc' = [mt_pc EXCEPT ![t] = op]
  /\ UNCHANGED <<heap, allocations_, aborted, expected, mt_released>>

\* void* data = NodeArrayBufferAllocator::Allocate(size); or
\* ...::AllocateUninitialized(size);
MT_Allocate_Heap(t) ==
  /\ Running
  /\ mt_pc[t] \in {"Allocate", "AllocateUninitialized"}
  /\ \E o \in IF mt_pc[t] = "Allocate"
                THEN NodeAllocate(heap, mt_call[t].size)
                ELSE NodeAllocateUninitialized(heap, mt_call[t].size) :
       /\ heap' = o.heap
       /\ mt_call' = [mt_call EXCEPT ![t].ret = o.ret]
  /\ mt_pc' = [mt_pc EXCEPT ![t] = "RegisterPointerInternal"]
  /\ UNCHANGED <<allocations_, aborted, expected, mutex_, mt_released>>

\* RegisterPointerInternal(data, size); return data;
MT_Allocate_Register(t) ==
  /\ Running
  /\ mt_pc[t] = "RegisterPointerInternal"
  /\ LET r == RegisterPointerInternal(allocations_, mt_call[t].ret,
                                      mt_call[t].size) IN
       /\ allocations_' = r.allocations
       /\ aborted' = r.check
       /\ expected' = IF r.check = "none"
                        THEN Hand(expected, NULL, mt_call[t].ret, mt_call[t].size)
                        ELSE expected
  /\ MT_Return(t)
  /\ UNCHANGED <<heap, mt_released>>

\* Free: UnregisterPointerInternal(data, size);
MT_Free_Unregister(t) ==
  /\ Running
  /\ mt_pc[t] = "Free"
  /\ LET r == UnregisterPointerInternal(allocations_, mt_call[t].data,
                                        mt_call[t].size) IN
       /\ allocations_' = r.allocations
       /\ aborted' = r.check
       /\ expected' = IF r.check = "none" THEN Erase(expected, mt_call[t].data)
                                          ELSE expected
  /\ mt_pc' = [mt_pc EXCEPT ![t] = "NodeFree"]
  /\ UNCHANGED <<heap, mutex_, mt_call, mt_released>>

\* Free: NodeArrayBufferAllocator::Free(data, size);
MT_Free_Heap(t) ==
  /\ Running
  /\ mt_pc[t] = "NodeFree"
  /\ heap' = NodeFree(heap, mt_call[t].data)
  /\ mt_released' = IF mt_call[t].data \in heap
                      THEN [ptr |-> mt_call[t].data, thread |-> t]
                      ELSE mt_released
  /\ MT_Return(t)
  /\ UNCHANGED <<allocations_, aborted, expected>>

\* Reallocate: void* ret = NodeArrayBufferAllocator::Reallocate(data, old_size,
\* size);
MT_Reallocate_Heap(t) ==
  /\ Running
  /\ mt_pc[t] = "Reallocate"
  /\ \E o \in NodeReallocate(heap, mt_call[t].data, mt_call[t].size) :
       IF o.crash
         THEN /\ aborted' = "heap"
              /\ UNCHANGED <<heap, mt_call, mt_pc, mt_released>>
         ELSE /\ heap' = o.heap
              /\ mt_call' = [mt_call EXCEPT ![t].ret = o.ret]
              /\ mt_pc' = [mt_pc EXCEPT ![t] = "ReallocateTracking"]
              /\ mt_released' =
                   IF mt_call[t].data \in heap \ o.heap
                     THEN [ptr |-> mt_call[t].data, thread |-> t]
                     ELSE mt_released
              /\ UNCHANGED aborted
  /\ UNCHANGED <<allocations_, expected, mutex_>>

\* Reallocate: the map update that follows, and the return.
MT_Reallocate_Tracking(t) ==
  /\ Running
  /\ mt_pc[t] = "ReallocateTracking"
  /\ LET c == mt_call[t]
         r == ReallocateTracking(allocations_, c.data, c.old_size, c.size,
                                 c.ret) IN
       /\ allocations_' = r.allocations
       /\ aborted' = r.check
       /\ expected' = IF r.check # "none" \/ (c.ret = NULL /\ c.size # 0)
                        THEN expected
                        ELSE Hand(expected, c.data, c.ret, c.size)
  /\ MT_Return(t)
  /\ UNCHANGED <<heap, mt_released>>

InitAllocMT ==
  /\ mutex_ = NULL
  /\ mt_pc = [t \in Threads |-> "idle"]
  /\ mt_call = [t \in Threads |-> NoCall]
  /\ mt_released = [ptr |-> NULL, thread |-> NULL]

\* ----- specification of the Environment lifecycle ---------------------------

InitEnv ==
  /\ env = "none"
  /\ flags = [kPrepareForExecution |-> FALSE, kOwnsProcessState |-> FALSE]
  /\ platform = FALSE
  /\ abort_on_uncaught_exception = TRUE
  /\ cpc = "start"
  /\ ret = "pending"
  /\ results = [RunBootstrapping |-> "unset", ExecuteBootstrapper |-> "unset"]
  /\ stopped = FALSE
  /\ sub_workers_stopped = FALSE
  /\ cleanup_hooks = 0
  /\ at_exit = 0
  /\ tasks = 0
  /\ fpc = 0
  /\ fcall = [caller |-> "none", dangling |-> FALSE]
  /\ calls = [create |-> 0, load |-> 0, free |-> 0, dangling |-> 0]
  /\ events = <<>>
  /\ lifecycle = <<>>
  /\ crashed = FALSE

Init == InitEnv /\ InitAlloc /\ InitTid /\ InitIso /\ InitCtx
        /\ InitMain /\ InitAlb /\ InitAbort /\ InitPst /\ InitAllocMT

Next ==
  \/ CE_New /\ UNCHANGED frameEnv
  \/ CE_RunBootstrapping /\ UNCHANGED frameEnv
  \/ CE_ExecuteBootstrapper /\ UNCHANGED frameEnv
  \/ CE_ReturnNull /\ UNCHANGED frameEnv
  \/ LoadEnvironment /\ UNCHANGED frameEnv
  \/ FreeEnvironment /\ UNCHANGED frameEnv
  \/ FE_set_stopped /\ UNCHANGED frameEnv
  \/ FE_stop_sub_worker_contexts /\ UNCHANGED frameEnv
  \/ FE_RunCleanup /\ UNCHANGED frameEnv
  \/ FE_RunAtExit /\ UNCHANGED frameEnv
  \/ FE_DrainTasks /\ UNCHANGED frameEnv
  \/ FE_delete /\ UNCHANGED frameEnv
  \/ PostTask /\ UNCHANGED frameEnv

Spec == Init /\ [][Next]_vars

\* ----- specification of the debug allocator ---------------------------------

NextAlloc ==
  \/ Allocate /\ UNCHANGED frameAlloc
  \/ AllocateUninitialized /\ UNCHANGED frameAlloc
  \/ Free /\ UNCHANGED frameAlloc
  \/ Reallocate /\ UNCHANGED frameAlloc
  \/ RegisterPointer /\ UNCHANGED frameAlloc
  \/ UnregisterPointer /\ UNCHANGED frameAlloc
  \/ Destroy /\ UNCHANGED frameAlloc
  \/ ExternalAllocate /\ UNCHANGED frameAlloc
  \/ ExternalFree /\ UNCHANGED frameAlloc

SpecAlloc == Init /\ [][NextAlloc]_vars

\* ----- specification of the thread id counter --------------------------------

NextTid ==
  \/ \E t \in Threads : TID_PostIncrement(t) /\ UNCHANGED frameTid
  \/ \E t \in Threads : TID_Return(t) /\ UNCHANGED frameTid

SpecTid == Init /\ [][NextTid]_vars

\* ----- specification of NewIsolate -------------------------------------------

NextIso ==
  \/ NI_Allocate /\ UNCHANGED frameIso
  \/ NI_CheckAllocated /\ UNCHANGED frameIso
  \/ NI_RegisterIsolate /\ UNCHANGED frameIso
  \/ NI_SetIsolateCreateParamsForNode /\ UNCHANGED frameIso
  \/ NI_Initialize /\ UNCHANGED frameIso
  \/ NI_SetIsolateUpForNode /\ UNCHANGED frameIso
  \/ NI_Return /\ UNCHANGED frameIso

SpecIso == Init /\ [][NextIso]_vars

\* ----- specification of the context bootstrap --------------------------------

NextCtx ==
  \/ CTX_Enter /\ UNCHANGED frameCtx
  \/ ICS_Primordials /\ UNCHANGED frameCtx
  \/ ICS_LookupAndCompile /\ UNCHANGED frameCtx
  \/ ICS_Call /\ UNCHANGED frameCtx
  \/ ICS_ReturnTrue /\ UNCHANGED frameCtx
  \/ IC_TestSnapshotStage /\ UNCHANGED frameCtx
  \/ ICR_Runtime /\ UNCHANGED frameCtx
  \/ CTX_Return /\ UNCHANGED frameCtx

SpecCtx == Init /\ [][NextCtx]_vars

\* ----- specification of environments started from a script source -----------

NextMain ==
  \/ \E e \in Envs : ME_CreateEnvironment(e) /\ UNCHANGED frameMain
  \/ \E e \in Envs : ME_Add(e) /\ UNCHANGED frameMain
  \/ \E e \in Envs : ME_ExecuteBootstrapper(e) /\ UNCHANGED frameMain

SpecMain == Init /\ [][NextMain]_vars

\* ----- specification of linked binding registration --------------------------

NextAlb ==
  \/ \E t \in Threads : ALB_Enter(t) /\ UNCHANGED frameAlb
  \/ \E t \in Threads : ALB_Lock(t) /\ UNCHANGED frameAlb
  \/ \E t \in Threads : ALB_Head(t) /\ UNCHANGED frameAlb
  \/ \E t \in Threads : ALB_PushBackRead(t) /\ UNCHANGED frameAlb
  \/ \E t \in Threads : ALB_PushBackWrite(t) /\ UNCHANGED frameAlb
  \/ \E t \in Threads : ALB_Link(t) /\ UNCHANGED frameAlb

SpecAlb == Init /\ [][NextAlb]_vars

\* ----- specification of the abort-on-uncaught-exception predicate ------------

NextAbort ==
  \/ AB_CreateEnvironment /\ UNCHANGED frameAbort
  \/ AB_SetToggle /\ UNCHANGED frameAbort
  \/ AB_EnterScope /\ UNCHANGED frameAbort
  \/ AB_LeaveScope /\ UNCHANGED frameAbort
  \/ AB_FreeEnvironment /\ UNCHANGED frameAbort
  \/ AB_TeardownStep /\ UNCHANGED frameAbort
  \/ AB_ShouldAbortOnUncaughtException /\ UNCHANGED frameAbort

SpecAbort == Init /\ [][NextAbort]_vars

\* ----- specification of the stack-trace-preparation hook ---------------------

NextPst ==
  \/ PST_Enter /\ UNCHANGED framePst
  \/ PST_ToString /\ UNCHANGED framePst
  \/ PST_Call /\ UNCHANGED framePst
  \/ PST_ReThrow /\ UNCHANGED framePst
  \/ PST_Return /\ UNCHANGED framePst

SpecPst == Init /\ [][NextPst]_vars

\* ----- specification of the allocator called from several threads ------------

NextAllocMT ==
  \/ \E t \in Threads : MT_Lock(t) /\ UNCHANGED frameAllocMT
  \/ \E t \in Threads : MT_Allocate_Heap(t) /\ UNCHANGED frameAllocMT
  \/ \E t \in Threads : MT_Allocate_Register(t) /\ UNCHANGED frameAllocMT
  \/ \E t \in Threads : MT_Free_Unregister(t) /\ UNCHANGED frameAllocMT
  \/ \E t \in Threads : MT_Free_Heap(t) /\ UNCHANGED frameAllocMT
  \/ \E t \in Threads : MT_Reallocate_Heap(t) /\ UNCHANGED frameAllocMT
  \/ \E t \in Threads : MT_Reallocate_Tracking(t) /\ UNCHANGED frameAllocMT

SpecAllocMT == Init /\ [][NextAllocMT]_vars

\* ----- properties of the Environment lifecycle ------------------------------

\* The events of FreeEnvironment calls made on a live Environment.
LiveEvents == {i \in 1..Len(events) : ~events[i].dangling}

\* The place of each teardown event in the order the contract prescribes.
TeardownRank(ev) ==
  CASE ev = "set_stopped" -> 1
    [] ev = "stop_sub_worker_contexts" -> 2
    [] ev \in {"RunCleanup", "cleanup_hook"} -> 3
    [] ev \in {"RunAtExit", "at_exit"} -> 4
    [] ev \in {"DrainTasks", "task"} -> 5
    [] ev = "delete" -> 6

InScopeBlock == {"set_stopped", "stop_sub_worker_contexts", "RunCleanup",
                 "RunAtExit"}

\* C1: in every FreeEnvironment call the stop flag is set first, then the
\* sub-worker contexts are stopped, then the cleanup hooks run, then the
\* at-exit callbacks run: every cleanup hook observes the stop flag set and the
\* sub-workers stopped, every at-exit callback observes no cleanup hook left.
C1_TeardownOrder ==
  /\ \A i \in LiveEvents :
       /\ events[i].ev = "stop_sub_worker_contexts" => events[i].stopped
       /\ events[i].ev \in {"RunCleanup", "cleanup_hook"} =>
            events[i].stopped /\ events[i].sub
       /\ events[i].ev \in {"RunAtExit", "at_exit"} =>
            events[i].stopped /\ events[i].sub /\ events[i].cleanup = 0
  /\ \A i, j \in LiveEvents :
       (i < j /\ events[i].call = events[j].call
          /\ events[i].ev \in InScopeBlock \cup {"cleanup_hook", "at_exit"}
          /\ events[j].ev \in InScopeBlock \cup {"cleanup_hook", "at_exit"})
       => TeardownRank(events[i].ev) <= TeardownRank(events[j].ev)

\* A teardown in which a cleanup hook and an at-exit callback ran.
C1_Witness ==
  /\ \E i \in LiveEvents : events[i].ev = "cleanup_hook"
  /\ \E i \in LiveEvents : events[i].ev = "at_exit"
  /\ env = "deleted"

\* C2: the platform's tasks are drained only after the in-scope block (stop
\* flag, sub-worker stop, cleanup hooks, at-exit callbacks) finished and while
\* the Environment is alive; the release is the last step, so no teardown step
\* and no drained task runs against a released Environment.
C2_DrainThenRelease ==
  /\ \A i \in LiveEvents :
       /\ events[i].alive
       /\ events[i].ev \in {"DrainTasks", "task"} =>
            /\ events[i].cleanup = 0 /\ events[i].atexit = 0
            /\ \A s \in InScopeBlock :
                 \E j \in 1..(i - 1) :
                    events[j].ev = s /\ events[j].call = events[i].call
       /\ events[i].ev = "delete" =>
            /\ \A j \in LiveEvents :
                 events[j].call = events[i].call => j <= i
            /\ \A s \in InScopeBlock :
                 \E j \in 1..(i - 1) :
                    events[j].ev = s /\ events[j].call = events[i].call
            /\ platform =>
                 \E j \in 1..(i - 1) :
                    events[j].ev = "DrainTasks"
                      /\ events[j].call = events[i].call
  /\ (fpc # 0 /\ ~fcall.dangling) => env = "alive"

\* A finished teardown that drained a pending task.
C2_Witness ==
  /\ \E i \in LiveEvents : events[i].ev = "task"
  /\ \E i \in LiveEvents : events[i].ev = "delete"
  /\ fpc = 0

\* C3: CreateEnvironment returns the Environment only if RunBootstrapping
\* succeeded and, with kPrepareForExecution, bootstrap/environment succeeded
\* too; on a failure the Environment is torn down by FreeEnvironment exactly
\* once, no later construction step runs and nullptr is returned.
C3_NoPartialEnvironment ==
  /\ ret = "env" =>
       /\ results.RunBootstrapping = "ok"
       /\ flags.kPrepareForExecution => results.ExecuteBootstrapper = "ok"
       /\ calls.free = 0 => (env = "alive" /\ events = <<>>)
  /\ "empty" \in {results.RunBootstrapping, results.ExecuteBootstrapper} =>
       /\ ret # "env"
       /\ cpc \in {"FreeEnvironment", "returned"}
       /\ calls.free = 1
       /\ fcall = [caller |-> "CreateEnvironment", dangling |-> FALSE]
  /\ results.RunBootstrapping # "ok" => results.ExecuteBootstrapper = "unset"
  /\ ret = "nullptr" =>
       /\ "empty" \in {results.RunBootstrapping, results.ExecuteBootstrapper}
       /\ env = "deleted"
       /\ Cardinality({i \in 1..Len(events) : events[i].ev = "delete"}) = 1

\* CreateEnvironment reported a failure of bootstrap/environment.
C3_Witness ==
  /\ ret = "nullptr"
  /\ results.ExecuteBootstrapper = "empty"
  /\ env = "deleted"

LifecycleRank(s) ==
  CASE s = "constructed" -> 1
    [] s = "bootstrapping" -> 2
    [] s = "ready" -> 3
    [] s = "executing" -> 4
    [] s = "cleaning-up" -> 5
    [] s = "destroyed" -> 6

StrictlyForward(seq) ==
  \A i, j \in 1..Len(seq) :
     i < j => LifecycleRank(seq[i]) < LifecycleRank(seq[j])

\* C4 as stated: under any sequence of CreateEnvironment, LoadEnvironment and
\* FreeEnvironment calls the lifecycle only moves forward and no state is
\* entered twice.
C4_AnyCallSequence == StrictlyForward(lifecycle)

\* C4 as amended: when LoadEnvironment is called at most once and no call is
\* made on a released Environment, the lifecycle only moves forward through
\* constructed, bootstrapping, ready, executing, cleaning-up, destroyed and no
\* state is entered twice.
C4_ForwardWhenCalledOnce ==
  (calls.load <= 1 /\ calls.dangling = 0) => StrictlyForward(lifecycle)

\* An Environment that went through all six states.
C4_Witness ==
  /\ calls.load = 1
  /\ calls.dangling = 0
  /\ lifecycle = <<"constructed", "bootstrapping", "ready", "executing",
                   "cleaning-up", "destroyed">>

\* ----- properties of the debug allocator ------------------------------------

Tracked == DOMAIN allocations_

\* m2 is m1 without the record of d.
Removed(m1, m2, d) ==
  /\ DOMAIN m2 = DOMAIN m1 \ {d}
  /\ \A q \in DOMAIN m2 : m2[q] = m1[q]

\* C5: the tracking map holds exactly the non-null pointers returned by
\* Allocate, AllocateUninitialized or Reallocate, or added by RegisterPointer,
\* that were not freed, reallocated away or unregistered since, each once and
\* with the size of the request that produced it.
C5_TrackingMap ==
  aborted = "none" =>
    /\ allocations_ = expected
    /\ Tracked \subseteq Ptrs
    /\ Tracked \subseteq heap
    /\ \A p \in Tracked : allocations_[p] \in Sizes

\* Two live records, one of them just produced by a Reallocate.
C5_Witness ==
  /\ aborted = "none"
  /\ last.op = "Reallocate"
  /\ last.data # NULL
  /\ last.ret \in Tracked
  /\ allocations_[last.ret] = last.size
  /\ Cardinality(Tracked) >= 2

C7_SizeMismatchAbort ==
  [][ (last'.op \in {"Free", "UnregisterPointer"} /\ last'.data \in Tracked)
      => LET d == last'.data
             mismatch == last'.size > 0 /\ last'.size # allocations_[d]
         IN  IF mismatch
               THEN /\ aborted' = "CHECK_EQ(it->second, size)"
                    /\ allocations_' = allocations_
               ELSE /\ aborted' = "none"
                    /\ Removed(allocations_, allocations_', d) ]_vars

\* A Free whose nonzero size differs from the recorded one.
C7_Witness ==
  /\ last.op = "Free"
  /\ last.size > 0
  /\ last.data \in Tracked
  /\ allocations_[last.data] # last.size
  /\ aborted = "CHECK_EQ(it->second, size)"

\* C8: Free and UnregisterPointer on a non-null pointer without a record abort
\* and do not reach the free of the heap; on nullptr they leave the map as it
\* is and do not abort.
C8_UntrackedFreeIsFatal ==
  [][ last'.op \in {"Free", "UnregisterPointer"}
      => LET d == last'.data
         IN  /\ (d # NULL /\ d \notin Tracked) =>
                  /\ aborted' = "CHECK_NE(it, end)"
                  /\ heap' = heap
                  /\ allocations_' = allocations_
             /\ d = NULL =>
                  /\ aborted' = "none"
                  /\ heap' = heap
                  /\ allocations_' = allocations_ ]_vars

\* A Free of a pointer that is no longer (or was never) tracked.
C8_Witness ==
  /\ last.op = "Free"
  /\ last.data # NULL
  /\ last.data \notin Tracked
  /\ aborted = "CHECK_NE(it, end)"

\* C9: after a Reallocate of a tracked pointer whose underlying reallocation
\* returned non-null, the map holds one record for the returned pointer, with
\* the new size, none for the original pointer when the address changed, and
\* every other record as before; the number of records is the same.
C9_ReallocateMovesRecord ==
  [][ (/\ last'.op = "Reallocate"
       /\ last'.data \in Tracked
       /\ last'.ret \in Ptrs)
      => LET d == last'.data
             r == last'.ret
         IN  /\ aborted' = "none"
             /\ DOMAIN allocations_' = (Tracked \ {d}) \cup {r}
             /\ allocations_'[r] = last'.size
             /\ r # d => d \notin DOMAIN allocations_'
             /\ \A q \in Tracked \ {d} : allocations_'[q] = allocations_[q]
             /\ Cardinality(DOMAIN allocations_') = Cardinality(Tracked) ]_vars

\* A Reallocate that moved a tracked block to another address.
C9_Witness ==
  /\ aborted = "none"
  /\ last.op = "Reallocate"
  /\ last.data # NULL
  /\ last.ret \in Ptrs \ {last.data}
  /\ last.ret \in Tracked
  /\ allocations_[last.ret] = last.size
  /\ last.data \notin Tracked
  /\ Cardinality(Tracked) = 1

\* C10: when the underlying reallocation returns nullptr and the requested
\* size is 0, Reallocate acts as Free(data, old_size) on the map: nothing for
\* nullptr, an abort for an untracked pointer or a mismatching nonzero
\* old_size, otherwise the record is removed; nullptr is returned.
C10_ReallocateToZeroFrees ==
  [][ (last'.op = "Reallocate" /\ last'.ret = NULL /\ last'.size = 0)
      => LET d == last'.data
         IN  IF d = NULL
               THEN aborted' = "none" /\ allocations_' = allocations_
             ELSE IF d \notin Tracked
               THEN /\ aborted' = "CHECK_NE(it, end)"
                    /\ allocations_' = allocations_
             ELSE IF last'.old_size > 0 /\ last'.old_size # allocations_[d]
               THEN /\ aborted' = "CHECK_EQ(it->second, size)"
                    /\ allocations_' = allocations_
             ELSE /\ aborted' = "none"
                  /\ Removed(allocations_, allocations_', d) ]_vars

\* A Reallocate to size 0 that removed the record of a tracked pointer while
\* another record stayed.
C10_Witness ==
  /\ aborted = "none"
  /\ last.op = "Reallocate"
  /\ last.size = 0
  /\ last.ret = NULL
  /\ last.data \in Ptrs
  /\ last.data \notin Tracked
  /\ last.data \notin heap
  /\ Tracked # {}

\* C21: when the underlying reallocation returns nullptr and the requested
\* size is not 0, Reallocate returns nullptr and leaves the tracking map as it
\* was: the record of the original pointer stays with its recorded size, no
\* record is added and no fatal check is evaluated.
C21_FailedReallocateKeepsMap ==
  [][ (last'.op = "Reallocate" /\ last'.ret = NULL /\ last'.size # 0)
      => /\ allocations_' = allocations_
         /\ aborted' = "none"
         /\ heap' = heap
         /\ expected' = expected ]_vars

\* A failed Reallocate of a tracked pointer whose old_size is not the recorded
\* size: the record is still there and nothing aborted.
C21_Witness ==
  /\ aborted = "none"
  /\ last.op = "Reallocate"
  /\ last.ret = NULL
  /\ last.size # 0
  /\ last.data \in Tracked
  /\ last.old_size > 0
  /\ allocations_[last.data] # last.old_size
  /\ allocations_[last.data] # last.size

\* The size argument sz is nonzero and is not the size recorded for d.
Mismatch(sz, d) == sz > 0 /\ sz # allocations_[d]

\* C22: where the underlying reallocation returns non-null, Reallocate removes
\* the record of the original pointer without comparing old_size with the
\* recorded size: on a tracked pointer a nonzero old_size that differs from
\* the recorded size does not abort, whereas the same mismatch aborts in Free
\* and in Reallocate's path for a nullptr result and size 0; an untracked
\* non-null original pointer aborts on this path too.
C22_NoSizeCheckOnMove ==
  [][ LET d == last'.data IN
      /\ (/\ last'.op = "Reallocate"
          /\ last'.ret \in Ptrs
          /\ d \in Tracked
          /\ Mismatch(last'.old_size, d))
         => /\ aborted' = "none"
            /\ last'.ret \in DOMAIN allocations_'
            /\ allocations_'[last'.ret] = last'.size
            /\ last'.ret # d => d \notin DOMAIN allocations_'
      /\ (/\ last'.op = "Reallocate"
          /\ last'.ret \in Ptrs
          /\ d # NULL
          /\ d \notin Tracked)
         => /\ aborted' = "CHECK_NE(it, end)"
            /\ allocations_' = allocations_
      /\ (/\ last'.op = "Free"
          /\ d \in Tracked
          /\ Mismatch(last'.size, d))
         => /\ aborted' = "CHECK_EQ(it->second, size)"
            /\ allocations_' = allocations_
      /\ (/\ last'.op = "Reallocate"
          /\ last'.ret = NULL
          /\ last'.size = 0
          /\ d \in Tracked
          /\ Mismatch(last'.old_size, d))
         => /\ aborted' = "CHECK_EQ(it->second, size)"
            /\ allocations_' = allocations_ ]_vars

\* A Reallocate moved a tracked block although its old_size is larger than any
\* size a record can hold, and nothing aborted.
C22_Witness ==
  /\ aborted = "none"
  /\ last.op = "Reallocate"
  /\ last.data # NULL
  /\ last.old_size > MaxSize
  /\ last.ret \in Ptrs \ {last.data}
  /\ last.ret \in Tracked
  /\ allocations_[last.ret] = last.size
  /\ last.data \notin Tracked

\* ----- properties of the thread id counter ------------------------------------

\* The ids returned so far, as (thread, position) pairs.
Returned == {x \in Threads \X (1..MaxIds) : x[2] <= Len(got[x[1]])}

\* C11: under any interleaving of AllocateEnvironmentThreadId calls every call
\* returns a distinct id, the first id issued is 0, the ids are issued in
\* strictly increasing order of the atomic increments, and the counter is
\* never reset or decreased.
C11_DistinctThreadIds ==
  /\ [](/\ issued # <<>> => issued[1] = 0
        /\ \A i, j \in 1..Len(issued) : i < j => issued[i] < issued[j]
        /\ \A i \in 1..Len(issued) : issued[i] < next_thread_id
        /\ \A x, y \in Returned : x # y => got[x[1]][x[2]] # got[y[1]][y[2]]
        /\ \A t, u \in Threads :
             (t # u /\ tid_pc[t] = "incremented" /\ tid_pc[u] = "incremented")
               => tid_val[t] # tid_val[u])
  /\ [][next_thread_id' >= next_thread_id]_vars

\* Two threads whose calls overlapped have both returned.
C11_Witness ==
  /\ \E t, u \in Threads :
       /\ t # u
       /\ got[t] # <<>>
       /\ got[u] # <<>>
       /\ got[t][1] = 1
       /\ got[u][1] = 0
       /\ tid_pc[t] = "idle"
       /\ tid_pc[u] = "incremented"
       /\ tid_val[u] = 2

\* ----- properties of NewIsolate -----------------------------------------------

\* The position of a step in the log of the current call, 0 when absent.
IsoPos(name) ==
  IF \E i \in 1..Len(iso_log) : iso_log[i] = name
    THEN CHOOSE i \in 1..Len(iso_log) : iso_log[i] = name
    ELSE 0

\* C12: in every NewIsolate call in which the isolate is allocated, the isolate
\* is registered with the platform before Isolate::Initialize is called on it,
\* and SetIsolateUpForNode installs the handlers only after initialization.
C12_RegisterInitializeHandlers ==
  /\ initialized \subseteq registered
  /\ handlers \subseteq initialized
  /\ IsoPos("Initialize") > 0 =>
       /\ IsoPos("RegisterIsolate") > 0
       /\ IsoPos("RegisterIsolate") < IsoPos("Initialize")
  /\ IsoPos("SetIsolateUpForNode") > 0 =>
       /\ IsoPos("Initialize") > 0
       /\ IsoPos("Initialize") < IsoPos("SetIsolateUpForNode")
  /\ (iso_pc = 0 /\ iso_log # <<>> /\ isolate # NULL) =>
       /\ iso_ret \in handlers
       /\ iso_log = <<"Allocate", "RegisterIsolate",
                      "SetIsolateCreateParamsForNode", "Initialize",
                      "SetIsolateUpForNode">>

\* A second call has initialized its isolate and not yet installed handlers.
C12_Witness ==
  /\ iso_count = 2
  /\ isolate # NULL
  /\ isolate \in initialized
  /\ isolate \notin handlers
  /\ Cardinality(registered) = 2

\* C13: if Isolate::Allocate returns null, NewIsolate returns null and has done
\* none of platform registration, create-params configuration, initialization
\* or handler installation; in every other case it returns the isolate, which
\* is not null.
C13_NullOnAllocateFailure ==
  /\ NULL \notin registered \cup initialized \cup handlers
  /\ (iso_pc = 0 /\ iso_log # <<>>) =>
       /\ isolate = NULL =>
            /\ iso_ret = NULL
            /\ iso_log = <<"Allocate">>
            /\ constraints = V8Default
       /\ isolate # NULL =>
            /\ iso_ret = isolate
            /\ iso_ret # NULL
  /\ (isolate = NULL /\ iso_log # <<>>) => iso_log = <<"Allocate">>

\* A call whose allocation failed has returned after an earlier successful one.
C13_Witness ==
  /\ iso_pc = 0
  /\ iso_count = 2
  /\ isolate = NULL
  /\ iso_ret = NULL
  /\ registered = {1}
  /\ handlers = {1}

\* ----- properties of the context bootstrap ------------------------------------

\* InitializeContext has returned in the current call.
InitializeContextReturned == initialize_ret \in {"true", "false"}

\* C14: InitializeContext returns failure exactly when the snapshot-safe stage
\* fails, and then the runtime-only stage is not run; when the snapshot-safe
\* stage succeeds the runtime-only stage is run exactly once afterwards and
\* InitializeContext returns success. NewContext returns an empty context when
\* InitializeContext fails.
C14_InitializeContextComposition ==
  /\ InitializeContextReturned =>
       /\ snapshot_ret \in {"true", "false"}
       /\ initialize_ret = snapshot_ret
       /\ runtime_runs = (IF snapshot_ret = "true" THEN 1 ELSE 0)
  /\ runtime_runs > 0 => (snapshot_ret = "true" /\ runtime_runs = 1)
  /\ (snapshot_ret = "true" /\ ctx_pc \in {"initialize returned", "idle"}) =>
       (runtime_runs = 1 /\ initialize_ret = "true")
  /\ (snapshot_ret = "false" /\ ctx_pc \in {"initialize returned", "idle"}) =>
       (runtime_runs = 0 /\ initialize_ret = "false")
  /\ (ctx_entry = "NewContext" /\ ctx_pc = "idle" /\ initialize_ret = "false") =>
       new_ret = "empty"
  /\ new_ret = "context" => initialize_ret = "true"

\* The embedder's second call, a NewContext, has returned empty because a unit
\* of the snapshot stage failed.
C14_Witness ==
  /\ ctx_calls = 2
  /\ ctx_entry = "NewContext"
  /\ ctx_pc = "idle"
  /\ snapshot_ret = "false"
  /\ initialize_ret = "false"
  /\ new_ret = "empty"
  /\ ctx_log # <<>>

\* The units in the order the list gives them, each compiled and then run.
UnitSchedule ==
  << <<"internal/per_context/primordials", "compile">>,
     <<"internal/per_context/primordials", "run">>,
     <<"internal/per_context/domexception", "compile">>,
     <<"internal/per_context/domexception", "run">> >>

\* C17: the snapshot-safe stage runs 'internal/per_context/primordials' and
\* then 'internal/per_context/domexception'; a unit is compiled and executed
\* only if every earlier unit compiled and executed successfully, and the
\* first unit whose lookup-and-compile yields nothing or whose execution
\* yields an empty result makes the stage return failure without running any
\* later unit.
C17_UnitsInListOrder ==
  /\ Len(ctx_log) <= Len(UnitSchedule)
  /\ \A i \in 1..Len(ctx_log) :
       /\ <<ctx_log[i].unit, ctx_log[i].step>> = UnitSchedule[i]
       /\ \A j \in 1..(i - 1) : ctx_log[j].ok
  /\ (ctx_log # <<>> /\ ~ctx_log[Len(ctx_log)].ok) =>
       /\ snapshot_ret = "false"
       /\ ctx_pc # "for"
       /\ ctx_pc # "Call"
  /\ snapshot_ret = "true" =>
       /\ Len(ctx_log) = Len(UnitSchedule)
       /\ \A i \in 1..Len(ctx_log) : ctx_log[i].ok

\* The first unit ran and the second one failed to compile.
C17_Witness ==
  /\ Len(ctx_log) = 3
  /\ ctx_log[2].ok
  /\ ~ctx_log[3].ok
  /\ ctx_log[3].unit = "internal/per_context/domexception"
  /\ snapshot_ret = "false"
  /\ ctx_pc = "idle"

\* ----- properties of environments started from a script source ---------------

Created == {e \in Envs : envs[e].state # "none"}

\* Environment e used its own unit name and, if it has executed, ran its own
\* script.
OwnScript(e) ==
  /\ envs[e].state \in {"added", "executed"} =>
       envs[e].name = "embedder_main_" \o ToString(envs[e].thread_id)
  /\ envs[e].state = "executed" => envs[e].ran = e

\* The unit names of e and f differ, once both have built theirs.
DistinctNames(e, f) ==
  (envs[e].state # "created" /\ envs[f].state # "created") =>
    envs[e].name # envs[f].name

\* C15 as stated: any two environments of the process have distinct thread
\* ids, register their scripts under distinct names and each executes its own
\* script, never the other's.
C15_AnyTwoEnvironments ==
  \A e, f \in Created :
    e # f =>
      /\ envs[e].thread_id # envs[f].thread_id
      /\ OwnScript(e)
      /\ DistinctNames(e, f)

\* C15, amended: an environment whose thread id differs from that of every
\* other environment (as it does when each id comes from its own
\* AllocateEnvironmentThreadId call) registers its script under a name
\* "embedder_main_<thread id>" no other environment uses, and executes its own
\* script, never another's.
C15_DistinctIdsNoCrossTalk ==
  \A e \in Created :
    (\A f \in Created \ {e} : envs[e].thread_id # envs[f].thread_id) =>
      /\ OwnScript(e)
      /\ \A f \in Created \ {e} : DistinctNames(e, f)

\* An environment has run a script that is not its own.
C15_CrossTalk ==
  \E e \in Envs : envs[e].state = "executed" /\ envs[e].ran # e

\* Two environments with different thread ids have both run their scripts.
C15_Witness ==
  \E e, f \in Envs :
    /\ e # f
    /\ envs[e].state = "executed"
    /\ envs[f].state = "executed"
    /\ envs[e].thread_id # envs[f].thread_id
    /\ DOMAIN source_ = {envs[e].name, envs[f].name}

\* ----- properties of linked binding registration ------------------------------

\* Thread t is between taking the mutex and returning.
InCriticalSection(t) ==
  alb_pc[t] \in {"head", "push_back", "push_back write", "link"}

\* The mods of the list, in list order.
ListMods == [i \in DOMAIN extra_linked_bindings |-> extra_linked_bindings[i].mod]

\* The mods whose push_back is done: completed calls and a call about to link.
Appended ==
  alb_completed \cup {alb_call[t].mod : t \in {u \in Threads : alb_pc[u] = "link"}}

\* C16: under any interleaving of AddLinkedBinding calls from several threads
\* on one environment, the append and the link update of a call run under the
\* linked-bindings mutex as one atomic step; after n calls have completed the
\* list holds exactly the n registered bindings, none lost or duplicated; a
\* null environment aborts before any change to the list.
C16_AtomicAppend ==
  /\ \A t \in Threads : InCriticalSection(t) <=> extra_linked_bindings_mutex = t
  /\ \A t, u \in Threads : (InCriticalSection(t) /\ InCriticalSection(u)) => t = u
  /\ {ListMods[i] : i \in DOMAIN ListMods} = Appended
  /\ Len(extra_linked_bindings) = Cardinality(Appended)
  /\ (\A t \in Threads : alb_pc[t] = "idle") =>
       /\ Len(extra_linked_bindings) = alb_calls
       /\ alb_completed = 1..alb_calls
  /\ alb_aborted => extra_linked_bindings = alb_at_abort

\* Calls made from two threads have all completed and filled the list.
C16_Witness ==
  /\ \A t \in Threads : alb_pc[t] = "idle"
  /\ Len(extra_linked_bindings) = MaxBindings
  /\ \E t, u \in Threads : t # u /\ alb_call[t].mod > 0 /\ alb_call[u].mod > 0

\* No AddLinkedBinding call is in progress.
NoBindingCallInProgress == \A t \in Threads : alb_pc[t] = "idle"

\* The addresses visited by following nm_link from address i, for at most
\* fuel elements.
RECURSIVE NmLinkChain(_, _, _)
NmLinkChain(list, i, fuel) ==
  IF i = NULL \/ i \notin DOMAIN list \/ fuel = 0
    THEN <<>>
    ELSE <<i>> \o NmLinkChain(list, list[i].nm_link, fuel - 1)

\* The addresses of the registered bindings, in registration order.
RegistrationOrder == [i \in DOMAIN extra_linked_bindings |-> i]

\* C23: after any sequence of AddLinkedBinding calls on one environment,
\* following nm_link from the first registered binding visits every registered
\* binding exactly once, in registration order, and the nm_link of the last
\* binding is null.
C23_ChainVisitsEveryBinding ==
  (NoBindingCallInProgress /\ extra_linked_bindings # <<>>) =>
    /\ NmLinkChain(extra_linked_bindings, 1, Len(extra_linked_bindings) + 1)
         = RegistrationOrder
    /\ extra_linked_bindings[Len(extra_linked_bindings)].nm_link = NULL

\* Three bindings were registered one after the other: the first one links to
\* the third, the second one links to nothing, and the chain from the first
\* binding skips the second.
C23_Witness ==
  /\ NoBindingCallInProgress
  /\ ~alb_aborted
  /\ Len(extra_linked_bindings) = 3
  /\ extra_linked_bindings[1].nm_link = 3
  /\ extra_linked_bindings[2].nm_link = NULL
  /\ extra_linked_bindings[3].nm_link = NULL
  /\ NmLinkChain(extra_linked_bindings, 1, 4) = <<1, 3>>

\* With no call in progress the first binding links to the newest one and no
\* other binding links to anything.
C23_OnlyFirstLinks ==
  (NoBindingCallInProgress /\ extra_linked_bindings # <<>>) =>
    /\ extra_linked_bindings[1].nm_link =
         IF Len(extra_linked_bindings) = 1 THEN NULL
                                           ELSE Len(extra_linked_bindings)
    /\ \A i \in DOMAIN extra_linked_bindings :
         i > 1 => extra_linked_bindings[i].nm_link = NULL

\* ----- properties of the abort-on-uncaught-exception predicate ----------------

\* The predicate has been called (fpc is -1 until then).
PredicateCalled == ab_seen.fpc >= 0

\* C18: the default predicate returns true exactly when an Environment exists
\* for the isolate, and it is on the main thread or not stopping, and its
\* toggle is set, and it is not inside a should-not-abort scope. Once
\* FreeEnvironment has set the stop flag of a non-main-thread environment the
\* predicate is false for the rest of teardown.
C18_AbortPredicate ==
  PredicateCalled =>
    /\ ab_ret <=> /\ ab_seen.env
                  /\ (ab_seen.main \/ ~ab_seen.stopping)
                  /\ ab_seen.toggle = 1
                  /\ ~ab_seen.inside
    /\ (ab_seen.fpc > 1 /\ ~ab_seen.main) => ~ab_ret

\* The predicate was called for a worker's environment in teardown, past
\* set_stopped, with the toggle set and outside any scope, and said no.
C18_Witness ==
  /\ PredicateCalled
  /\ ab_seen.fpc > 1
  /\ ab_seen.env
  /\ ~ab_seen.main
  /\ ab_seen.toggle = 1
  /\ ~ab_seen.inside
  /\ ~ab_ret

\* The predicate said yes for a main-thread environment that is stopping.
C18_WitnessMainThread ==
  /\ PredicateCalled
  /\ ab_seen.main
  /\ ab_seen.stopping
  /\ ab_ret

\* ----- properties of the stack-trace-preparation hook -------------------------

\* The hook has returned from its latest call.
HookReturned == pst_pc = "idle" /\ pst_calls > 0

\* C19: whenever the user-registered prepare-stack-trace callback raises an
\* exception, the hook re-raises that exception to the engine instead of
\* returning an empty result with no scheduled exception; when no Environment
\* or no user callback exists it falls back to stringifying the exception.
C19_ReThrowOrStringify ==
  /\ (pst_outcome = "exception" /\ pst_pc \in {"return", "idle"}) =>
       /\ scheduled_exception # NULL
       /\ scheduled_exception = try_catch.exception
  /\ (HookReturned /\ pst_outcome = "exception") => pst_ret = "empty"
  /\ (HookReturned /\ (~pst_args.env \/ ~pst_args.prepare)) =>
       /\ pst_outcome = "none"
       /\ pst_ret \in {"string", "empty"}
       /\ scheduled_exception = NULL
  /\ (HookReturned /\ pst_args.env /\ pst_args.prepare) =>
       /\ pst_outcome # "none"
       /\ pst_ret # "string"
  /\ (HookReturned /\ pst_outcome = "value") =>
       (pst_ret = "value" /\ scheduled_exception = NULL)

\* The callback threw the second exception while the hook was preparing the
\* trace of the first, and the hook has returned.
C19_Witness ==
  /\ HookReturned
  /\ pst_outcome = "exception"
  /\ pst_args.exception = 1
  /\ scheduled_exception = 2
  /\ pst_ret = "empty"

\* The hook stringified the exception of a context without Environment.
C19_WitnessFallback ==
  /\ HookReturned
  /\ ~pst_args.env
  /\ pst_ret = "string"

\* ----- properties of the allocator called from several threads ----------------

\* C20: under any interleaving of Allocate, AllocateUninitialized, Free and
\* Reallocate calls from several threads on one debug allocator, the heap
\* operation and the map update of a call happen together under the single
\* mutex, so the tracking map stays equal to the blocks handed out and not
\* released, and the duplicate-insertion check is never reached, even when
\* the heap hands a just-freed address to a concurrent allocation.
C20_MutexKeepsTrackingMap ==
  /\ aborted # "CHECK_EQ(count, 0)"
  /\ \A t \in Threads : mt_pc[t] # "idle" <=> mutex_ = t
  /\ (mutex_ = NULL /\ aborted = "none") =>
       /\ allocations_ = expected
       /\ DOMAIN allocations_ = heap
  /\ aborted = "none" => DOMAIN allocations_ \subseteq heap \cup
       {mt_call[t].data : t \in {u \in Threads : mt_pc[u] = "ReallocateTracking"}}

\* An allocation has been given the address another thread's call released
\* last, and is about to register it.
C20_Witness ==
  \E t \in Threads :
    /\ mt_pc[t] = "RegisterPointerInternal"
    /\ mt_call[t].ret # NULL
    /\ mt_call[t].ret = mt_released.ptr
    /\ mt_released.thread # t
    /\ mt_call[t].ret \notin DOMAIN allocations_
    /\ aborted = "none"

====
